---- MODULE Spec2Model ----
(***************************************************************************)
(* pi-system-theme: a host extension that keeps the host's theme in sync   *)
(* with the operating system's dark/light appearance.                      *)
(*                                                                         *)
(* The model follows the revision with opt-in gating (shouldAutoSync) and  *)
(* macOS + Linux detection.  Text is modelled as sequences of one-char     *)
(* strings so that trim / toLowerCase / includes / parseInt are computed.  *)
(* Every action is one run-to-completion segment of a handler, from one    *)
(* real await (file I/O, child process, interactive prompt) to the next.   *)
(***************************************************************************)
EXTENDS Integers, Sequences, FiniteSets, TLC

\* ------------------------------------------------------------------ text
Dark == <<"d", "a", "r", "k">>
Light == <<"l", "i", "g", "h", "t">>
\* a theme the host knows that is neither "dark" nor "light"
Rose == <<"r", "o", "s", "e">>

\* the value of an absent / undefined JavaScript value
Undefined == <<"undefined!">>
\* JavaScript null
Null == <<"null!">>

IsSpace(c) == c \in {" ", "\n", "\t"}

RECURSIVE TrimStart(_)
TrimStart(s) == IF s # <<>> /\ IsSpace(Head(s)) THEN TrimStart(Tail(s)) ELSE s

RECURSIVE TrimEnd(_)
TrimEnd(s) ==
    IF s # <<>> /\ IsSpace(s[Len(s)]) THEN TrimEnd(SubSeq(s, 1, Len(s) - 1)) ELSE s

\* String.prototype.trim
Trim(s) == TrimEnd(TrimStart(s))

LowerChar(c) ==
    CASE c = "A" -> "a" [] c = "B" -> "b" [] c = "C" -> "c" [] c = "D" -> "d"
      [] c = "E" -> "e" [] c = "F" -> "f" [] c = "G" -> "g" [] c = "H" -> "h"
      [] c = "I" -> "i" [] c = "J" -> "j" [] c = "K" -> "k" [] c = "L" -> "l"
      [] c = "M" -> "m" [] c = "N" -> "n" [] c = "O" -> "o" [] c = "P" -> "p"
      [] c = "Q" -> "q" [] c = "R" -> "r" [] c = "S" -> "s" [] c = "T" -> "t"
      [] c = "U" -> "u" [] c = "V" -> "v" [] c = "W" -> "w" [] c = "X" -> "x"
      [] c = "Y" -> "y" [] c = "Z" -> "z" [] OTHER -> c

\* String.prototype.toLowerCase
ToLowerCase(s) == [i \in 1..Len(s) |-> LowerChar(s[i])]

\* String.prototype.includes
Includes(s, sub) ==
    \E i \in 0..(Len(s) - Len(sub)) : SubSeq(s, i + 1, i + Len(sub)) = sub

StartsWith(s, c) == s # <<>> /\ s[1] = c
EndsWith(s, c) == s # <<>> /\ s[Len(s)] = c

IsDigit(c) == c \in {"0", "1", "2", "3", "4", "5", "6", "7", "8", "9"}

DigitVal(c) ==
    CASE c = "0" -> 0 [] c = "1" -> 1 [] c = "2" -> 2 [] c = "3" -> 3
      [] c = "4" -> 4 [] c = "5" -> 5 [] c = "6" -> 6 [] c = "7" -> 7
      [] c = "8" -> 8 [] c = "9" -> 9

RECURSIVE DigitsValue(_, _)
\* the value of the longest prefix of digits of s, continuing from acc
DigitsValue(s, acc) ==
    IF s # <<>> /\ IsDigit(Head(s))
    THEN DigitsValue(Tail(s), 10 * acc + DigitVal(Head(s)))
    ELSE acc

\* Number.parseInt(s, 10): leading white space, an optional sign, then the
\* longest run of digits; NaN (nan = TRUE) when there is no digit
ParseInt(s) ==
    LET t == TrimStart(s)
        neg == t # <<>> /\ Head(t) = "-"
        body == IF t # <<>> /\ Head(t) \in {"-", "+"} THEN Tail(t) ELSE t
    IN  IF body = <<>> \/ ~IsDigit(Head(body)) THEN [nan |-> TRUE, n |-> 0]
        ELSE [nan |-> FALSE,
              n |-> IF neg THEN 0 - DigitsValue(body, 0) ELSE DigitsValue(body, 0)]

\* -------------------------------------------------------- configuration
MIN_POLL_MS == 500
DEFAULT_POLL_MS == 2000

DEFAULT_CONFIG == [darkTheme |-> Dark, lightTheme |-> Light, pollMs |-> DEFAULT_POLL_MS]

\* JSON values as the parser returns them: t is the typeof, s the text of a
\* string, n a number in tenths (so that Math.round has something to round)
\* and finite is false for the Infinity that 1e999 parses to.
JStr(s) == [t |-> "string", s |-> s, n |-> 0, finite |-> TRUE]
JNum(tenths) == [t |-> "number", s |-> <<>>, n |-> tenths, finite |-> TRUE]
JInf == [t |-> "number", s |-> <<>>, n |-> 0, finite |-> FALSE]
JBool == [t |-> "boolean", s |-> <<>>, n |-> 0, finite |-> TRUE]
JUndef == [t |-> "undefined", s |-> <<>>, n |-> 0, finite |-> TRUE]

\* Math.round of a number given in tenths: floor(x + 0.5)
MathRound(tenths) == (tenths + 5) \div 10

Max(a, b) == IF a >= b THEN a ELSE b

\* (faulty variant) the text of the file taken as it is
toThemeNameUntrimmed(value, fallback) ==
    IF value.t # "string" THEN fallback
    ELSE IF Len(Trim(value.s)) > 0 THEN value.s ELSE fallback

toThemeName(value, fallback) ==
    IF value.t # "string" THEN fallback
    ELSE LET trimmed == Trim(value.s)
         IN  IF Len(trimmed) > 0 THEN trimmed ELSE fallback

\* (faulty variant) toPollMs without the floor of MIN_POLL_MS
toPollMsNoFloor(value, fallback) ==
    IF value.t # "number" \/ ~value.finite THEN fallback
    ELSE MathRound(value.n)

toPollMs(value, fallback) ==
    IF value.t # "number" \/ ~value.finite THEN fallback
    ELSE Max(MIN_POLL_MS, MathRound(value.n))

\* the override file: absent, unreadable, not JSON, JSON that is no object,
\* or an object with some of the three fields
FileObject(d, l, p) == [kind |-> "object", darkTheme |-> d, lightTheme |-> l, pollMs |-> p]

FileAbsent == [kind |-> "absent", darkTheme |-> JUndef, lightTheme |-> JUndef, pollMs |-> JUndef]
\* a file that is there and is not a JSON object: kind is "unreadable"
\* (readFile fails other than ENOENT), "notjson" (JSON.parse throws) or
\* "array" (JSON, but isObject is false)
FileBad(kind) == [kind |-> kind, darkTheme |-> JUndef, lightTheme |-> JUndef, pollMs |-> JUndef]

\* (faulty variant) getOverrides that forgets the interval
getOverridesThemesOnly(config) ==
    [darkTheme |-> IF config.darkTheme # DEFAULT_CONFIG.darkTheme
                   THEN JStr(config.darkTheme) ELSE JUndef,
     lightTheme |-> IF config.lightTheme # DEFAULT_CONFIG.lightTheme
                    THEN JStr(config.lightTheme) ELSE JUndef,
     pollMs |-> JUndef]

\* (faulty variant) getOverrides that keeps every field
getOverridesAll(config) ==
    [darkTheme |-> JStr(config.darkTheme), lightTheme |-> JStr(config.lightTheme),
     pollMs |-> JNum(10 * config.pollMs)]

getOverrides(config) ==
    [darkTheme |-> IF config.darkTheme # DEFAULT_CONFIG.darkTheme
                   THEN JStr(config.darkTheme) ELSE JUndef,
     lightTheme |-> IF config.lightTheme # DEFAULT_CONFIG.lightTheme
                    THEN JStr(config.lightTheme) ELSE JUndef,
     pollMs |-> IF config.pollMs # DEFAULT_CONFIG.pollMs
                THEN JNum(10 * config.pollMs) ELSE JUndef]

overrideCount(overrides) ==
    Cardinality({k \in {"darkTheme", "lightTheme", "pollMs"} : overrides[k].t # "undefined"})

\* loadConfig: the configuration and whether console.warn was called
\* (faulty variant) a file that is no JSON object is ignored without a word
loadConfigUnwarned(file) ==
    IF file.kind # "object" THEN [config |-> DEFAULT_CONFIG, warned |-> FALSE]
    ELSE [config |-> [darkTheme |-> toThemeName(file.darkTheme, DEFAULT_CONFIG.darkTheme),
                      lightTheme |-> toThemeName(file.lightTheme, DEFAULT_CONFIG.lightTheme),
                      pollMs |-> toPollMs(file.pollMs, DEFAULT_CONFIG.pollMs)],
          warned |-> FALSE]

loadConfig(file) ==
    IF file.kind = "absent" THEN [config |-> DEFAULT_CONFIG, warned |-> FALSE]
    ELSE IF file.kind # "object" THEN [config |-> DEFAULT_CONFIG, warned |-> TRUE]
    ELSE [config |-> [darkTheme |-> toThemeName(file.darkTheme, DEFAULT_CONFIG.darkTheme),
                      lightTheme |-> toThemeName(file.lightTheme, DEFAULT_CONFIG.lightTheme),
                      pollMs |-> toPollMs(file.pollMs, DEFAULT_CONFIG.pollMs)],
          warned |-> FALSE]

\* saveConfig when the file system accepts the operation: the file left on
\* disk and the result reported
saveConfig(config) ==
    LET overrides == getOverrides(config)
        n == overrideCount(overrides)
    IN  IF n = 0
        THEN [file |-> FileAbsent, wroteFile |-> FALSE, overrideCount |-> n]
        ELSE [file |-> FileObject(overrides.darkTheme, overrides.lightTheme, overrides.pollMs),
              wroteFile |-> TRUE, overrideCount |-> n]

\* ------------------------------------------------------------- detection
DoesNotExist ==
    <<"d", "o", "e", "s", " ", "n", "o", "t", " ", "e", "x", "i", "s", "t">>
PreferDark ==
    <<"p", "r", "e", "f", "e", "r", "-", "d", "a", "r", "k">>
PreferLight ==
    <<"p", "r", "e", "f", "e", "r", "-", "l", "i", "g", "h", "t">>

\* What a detection command can produce: ok with its stdout, or a rejection
\* whose error object carries stderr (Undefined when it has none, as for a
\* spawn error).
Ok(stdout) == [ok |-> TRUE, stdout |-> stdout, stderr |-> <<>>]
Failed(stderr) == [ok |-> FALSE, stdout |-> <<>>, stderr |-> stderr]

StdoutMacDark ==
    <<"D", "a", "r", "k", "\n">>
StdoutMacLight ==
    <<"L", "i", "g", "h", "t", "\n">>
StdoutMacOther ==
    <<"B", "l", "u", "e", "\n">>
StderrMacNoKey ==
    <<"T", "h", "e", " ", "d", "o", "m", "a", "i", "n", "/", "d", "e", "f", "a", "u",
      "l", "t", " ", "p", "a", "i", "r", " ", "o", "f", " ", "(", "k", "C", "F", "P",
      "r", "e", "f", "e", "r", "e", "n", "c", "e", "s", "A", "n", "y", "A", "p", "p",
      "l", "i", "c", "a", "t", "i", "o", "n", ",", " ", "A", "p", "p", "l", "e", "I",
      "n", "t", "e", "r", "f", "a", "c", "e", "S", "t", "y", "l", "e", ")", " ", "d",
      "o", "e", "s", " ", "n", "o", "t", " ", "e", "x", "i", "s", "t", "\n">>
StderrOther ==
    <<"C", "o", "u", "l", "d", " ", "n", "o", "t", " ", "r", "u", "n", "\n">>
StdoutPreferDark ==
    <<"'", "p", "r", "e", "f", "e", "r", "-", "d", "a", "r", "k", "'", "\n">>
StdoutPreferLight ==
    <<"'", "p", "r", "e", "f", "e", "r", "-", "l", "i", "g", "h", "t", "'", "\n">>
StdoutSchemeDefault ==
    <<"'", "d", "e", "f", "a", "u", "l", "t", "'", "\n">>
StdoutGtkDark ==
    <<"'", "A", "d", "w", "a", "i", "t", "a", "-", "d", "a", "r", "k", "'", "\n">>
StdoutGtkLight ==
    <<"'", "Y", "a", "r", "u", "-", "L", "i", "g", "h", "t", "'", "\n">>
StdoutGtkPlain ==
    <<"'", "A", "d", "w", "a", "i", "t", "a", "'", "\n">>

\* a command that fails whatever the appearance is: a timeout or a spawn
\* error (no stderr on the error object), or a non-zero exit with some text
CommandFailures == {Failed(Undefined), Failed(StderrOther)}

\* `defaults read -g AppleInterfaceStyle`: "Dark" in dark mode; in light
\* mode the key does not exist and the command fails saying so
MacResults(appearance) ==
    (IF appearance = "dark"
     THEN {Ok(StdoutMacDark)}
     ELSE {Failed(StderrMacNoKey), Ok(StdoutMacLight)})
    \cup {Ok(StdoutMacOther)} \cup CommandFailures

\* `gsettings get org.gnome.desktop.interface color-scheme`
ColorSchemeResults(appearance) ==
    (IF appearance = "dark"
     THEN {Ok(StdoutPreferDark), Ok(StdoutSchemeDefault)}
     ELSE {Ok(StdoutPreferLight), Ok(StdoutSchemeDefault)})
    \cup CommandFailures

\* `gsettings get org.gnome.desktop.interface gtk-theme`
GtkThemeResults(appearance) ==
    (IF appearance = "dark"
     THEN {Ok(StdoutGtkDark)}
     ELSE {Ok(StdoutGtkLight), Ok(StdoutGtkPlain)})
    \cup CommandFailures

extractStderr(error) == IF error.stderr = Undefined THEN <<>> ELSE error.stderr

normalizeSettingValue(value) ==
    LET trimmed == ToLowerCase(Trim(value))
    IN  IF \/ StartsWith(trimmed, "'") /\ EndsWith(trimmed, "'")
           \/ StartsWith(trimmed, "\"") /\ EndsWith(trimmed, "\"")
        THEN SubSeq(trimmed, 2, Len(trimmed) - 1)
        ELSE trimmed

\* (faulty variant) every platform is taken to have a detection backend
isSupportedPlatformAny(p) == TRUE

isSupportedPlatform(p) == p = "darwin" \/ p = "linux"

\* an Appearance | null: "dark", "light" or "null"
parseMacAppearance(value) ==
    IF value = Dark THEN "dark" ELSE IF value = Light THEN "light" ELSE "null"

\* (faulty variant) any color-scheme that mentions dark or light decides
parseGnomeColorSchemeLoose(value) ==
    IF Includes(value, Dark) THEN "dark" ELSE IF Includes(value, Light) THEN "light" ELSE "null"

parseGnomeColorScheme(value) ==
    IF value = PreferDark THEN "dark" ELSE IF value = PreferLight THEN "light" ELSE "null"

parseGtkThemeAppearance(value) ==
    IF value = Null \/ value = <<>> THEN "null"
    ELSE IF Includes(value, Dark) THEN "dark"
    ELSE IF Includes(value, Light) THEN "light"
    ELSE "null"

\* the setting's normalized text, or Null when the command fails
readGnomeInterfaceSetting(result) ==
    IF result.ok THEN normalizeSettingValue(result.stdout) ELSE Null

\* (faulty variant) a failure of `defaults` that is not about a missing key
\* is thrown on to the caller
detectMacAppearanceRethrows(result) ==
    IF result.ok THEN parseMacAppearance(normalizeSettingValue(result.stdout))
    ELSE IF Includes(ToLowerCase(extractStderr(result)), DoesNotExist) THEN "light"
    ELSE "thrown"

\* (faulty variant) every failure of `defaults` is taken for light mode
detectMacAppearanceFailureIsLight(result) ==
    IF result.ok THEN parseMacAppearance(normalizeSettingValue(result.stdout))
    ELSE "light"

detectMacAppearance(result) ==
    IF result.ok THEN parseMacAppearance(normalizeSettingValue(result.stdout))
    ELSE IF Includes(ToLowerCase(extractStderr(result)), DoesNotExist) THEN "light"
    ELSE "null"

\* ---------------------------------------------------------------- policy
\* ctx: what a handler sees of the host, [hasUI, allThemes, themeName]
\* (faulty variant) every host is taken to have themes
canManageThemesAlways(ctx) == TRUE

\* (faulty variant) a host with a UI is taken to have themes
canManageThemesUIOnly(ctx) == ctx.hasUI

canManageThemes(ctx) == IF ~ctx.hasUI THEN FALSE ELSE Cardinality(ctx.allThemes) > 0

hasThemeOverrides(config) ==
    config.darkTheme # DEFAULT_CONFIG.darkTheme \/ config.lightTheme # DEFAULT_CONFIG.lightTheme

isDefaultThemeName(themeName) ==
    themeName = DEFAULT_CONFIG.darkTheme \/ themeName = DEFAULT_CONFIG.lightTheme

\* (faulty variant) the gate of the revision before opt-in: canManageThemes alone
shouldAutoSyncUngated(ctx, config) == canManageThemes(ctx)

shouldAutoSync(ctx, config) ==
    IF ~canManageThemes(ctx) THEN FALSE
    ELSE IF hasThemeOverrides(config) THEN TRUE
    ELSE isDefaultThemeName(ctx.themeName)

\* ------------------------------------------------------------- the state
VARIABLES
    platform,       \* process.platform
    hasUI,          \* ctx.hasUI
    allThemes,      \* the names ctx.ui.getAllThemes() returns
    themeName,      \* ctx.ui.theme.name
    osAppearance,   \* the appearance the operating system is set to
    file,           \* the override file at GLOBAL_CONFIG_PATH
    activeConfig,
    intervalId,     \* 0 is null, otherwise the id of a timer
    syncInProgress,
    lastSetThemeError,
    didWarnDefaultThemeFallback,
    timers,         \* the live intervals of the event loop: [id, ms]
    startPc,        \* where the session_start handler is suspended
    cmdPc,          \* where the /system-theme handler is suspended
    draft,          \* the handler's draft configuration
    pass,           \* per caller of syncTheme: the await its pass is suspended at
    stopped,        \* session_shutdown arrived and no session_start or save since
    detectLog,      \* DetectSpec, WinSpec: what the commands of the pass returned
    configBeforeSave, \* SaveSpec: activeConfig when "Save and apply" was last chosen
    warnedKeys,     \* WarnSpec: the failures of setTheme logged since it last succeeded
    lastAppliedThemeName,   \* FallbackSpec: lastAppliedThemeName
    missingThemeWarnings,   \* FallbackSpec: missingThemeWarnings
    setThemeWarnings,       \* FallbackSpec: setThemeWarnings
    handled,        \* HandlerSpec: the events that arrived, in order
    typed,          \* PromptSpec: the field last prompted for and the answer given
    customNotices,  \* how many "current theme is custom" notifications were shown
    out             \* what the last step did to the outside world

vars ==
    <<platform, hasUI, allThemes, themeName, osAppearance, file, activeConfig, intervalId,
      syncInProgress, lastSetThemeError, didWarnDefaultThemeFallback, timers, startPc,
      cmdPc, draft, pass, customNotices, stopped, detectLog, configBeforeSave, warnedKeys,
      lastAppliedThemeName, missingThemeWarnings, setThemeWarnings, handled, typed, out>>

\* the state of the revision with a fallback theme (src/index.ts from line 360)
legacyVars == <<lastAppliedThemeName, missingThemeWarnings, setThemeWarnings>>

hostVars == <<platform, hasUI, allThemes>>

\* ----------------------------------------------------------------- bounds
\* the count of custom-theme notifications stops growing here
MaxCustomNotices == 2

Platforms == {"darwin", "linux", "win32"}
Callers == {"start", "cmd", "tick"}
KnownThemes == {Dark, Light, Rose}

\* override files found at the first session start: none, or one whose
\* darkTheme is blank, whose lightTheme needs trimming and whose pollMs needs
\* rounding
InitialFiles ==
    {FileAbsent,
     FileObject(JStr(<<" ">>), JStr(<<" ", "r", "o", "s", "e", "\n">>), JNum(5996))}

\* what the user types into the dark-theme, the light-theme and the interval
\* prompt
DarkThemeInputs == {<<" ">>, <<" ", "r", "o", "s", "e", " ">>, Dark}
LightThemeInputs == {<<>>, Rose}
PollInputs == {<<" ">>, <<" ", "2", "0", "0", "0">>, <<"4", "9", "9">>, <<"a", "b", "c">>}

\* what ctx.ui.setTheme does with a theme the host knows
SetThemeOutcomes == {"ok", "fail", "throw"}

HostError == <<"b", "o", "o", "m">>
NotFoundError == <<"n", "o", "t", " ", "f", "o", "u", "n", "d">>
UnknownError ==
    <<"u", "n", "k", "n", "o", "w", "n", " ", "e", "r", "r", "o", "r">>

\* ------------------------------------------------------- the outside world
\* a step that does nothing to the outside world.  setTheme, exec, notify,
\* warn, setInterval and clearInterval list the calls the step made, in
\* order; detected is the appearance a pass ending in the step had detected
\* ("none" when no pass ended); threw says a pass ended by an exception.
Quiet ==
    [setTheme |-> <<>>, exec |-> <<>>, notify |-> <<>>, warn |-> <<>>,
     setInterval |-> <<>>, clearInterval |-> <<>>, detected |-> "none", threw |-> FALSE]

Ctx == [hasUI |-> hasUI, allThemes |-> allThemes, themeName |-> themeName]

\* the result of ctx.ui.setTheme(name): a theme the host does not know is
\* rejected; a known one is applied, rejected, or the call throws
setThemeResult(name, known, outcome) ==
    IF name \notin known THEN [success |-> FALSE, error |-> NotFoundError, threw |-> FALSE]
    ELSE IF outcome = "ok" THEN [success |-> TRUE, error |-> Undefined, threw |-> FALSE]
    ELSE IF outcome = "fail" THEN [success |-> FALSE, error |-> HostError, threw |-> FALSE]
    ELSE [success |-> FALSE, error |-> Undefined, threw |-> TRUE]

\* ------------------------------------------------------------ sync engine
\* (faulty variant) the entry test without the reentrancy guard
syncDroppedNoGuard(ctx, config, inProgress) == ~shouldAutoSync(ctx, config)

\* syncTheme's entry test: the pass is dropped
syncDropped(ctx, config, inProgress) == ~shouldAutoSync(ctx, config) \/ inProgress

\* (faulty variant) a null appearance is taken for a detected one
appearanceFoundAlways(a) == TRUE

appearanceFound(a) == a # "null"

\* (faulty variant) the target taken from the configuration the extension
\* was constructed with, whatever the active one is
targetThemeOfInitial(config, a) ==
    IF a = "dark" THEN DEFAULT_CONFIG.darkTheme ELSE DEFAULT_CONFIG.lightTheme

\* (faulty variant) the two themes swapped
targetThemeOfSwapped(config, a) == IF a = "dark" THEN config.lightTheme ELSE config.darkTheme

targetThemeOf(config, a) == IF a = "dark" THEN config.darkTheme ELSE config.lightTheme

\* (faulty variant) the comparison with the host's theme left out
themeIsActiveNever(activeName, targetTheme) == FALSE

themeIsActive(activeName, targetTheme) == activeName = targetTheme

\* (faulty variant) the flag reset before each return instead of in a finally block
syncInProgressAfterNoFinally(threw) == threw

\* the finally block: the value of syncInProgress when the pass is over
syncInProgressAfter(threw) == FALSE

\* (faulty variant) every failure of setTheme is taken for a new one
setThemeFailureIsNewAlways(errorKey, lastError) == TRUE

\* whether a failure of setTheme is recorded and logged
setThemeFailureIsNew(errorKey, lastError) == errorKey # lastError

\* syncTheme from the end of detection to its return: the setTheme calls made,
\* the host's theme, lastSetThemeError, the warnings logged, and whether the
\* call threw
syncThemeApply(ctx, config, a, outcome, lastError) ==
    LET targetTheme == targetThemeOf(config, a)
        result == setThemeResult(targetTheme, ctx.allThemes, outcome)
        message == IF result.error = Undefined THEN UnknownError ELSE result.error
        errorKey == targetTheme \o <<":">> \o message
        nothing == [setTheme |-> <<>>, themeName |-> ctx.themeName,
                    lastSetThemeError |-> lastError, warn |-> <<>>, threw |-> FALSE]
    IN  IF ~appearanceFound(a) THEN nothing
        ELSE IF themeIsActive(ctx.themeName, targetTheme) THEN nothing
        ELSE IF result.threw THEN [nothing EXCEPT !.setTheme = <<targetTheme>>, !.threw = TRUE]
        ELSE IF result.success
        THEN [nothing EXCEPT !.setTheme = <<targetTheme>>, !.themeName = targetTheme,
                             !.lastSetThemeError = Null]
        ELSE IF setThemeFailureIsNew(errorKey, lastError)
        THEN [nothing EXCEPT !.setTheme = <<targetTheme>>, !.lastSetThemeError = errorKey,
                             !.warn = <<"failed to set theme">>]
        ELSE [nothing EXCEPT !.setTheme = <<targetTheme>>]

\* the first detection command of a pass on this platform
firstCommand(p) ==
    IF p = "darwin" THEN <<"defaults AppleInterfaceStyle">>
    ELSE IF p = "linux" THEN <<"gsettings color-scheme">>
    ELSE <<>>

\* -------------------------------------------------------------- scheduler
\* the smallest id no live timer has
freshTimerId(tms) ==
    CHOOSE i \in 1..(Cardinality(tms) + 1) :
        /\ \A t \in tms : t.id # i
        /\ \A j \in 1..(i - 1) : \E t \in tms : t.id = j

\* (faulty variant) restartPolling without clearInterval
restartPollingNoClear(id, tms, ctx, config) ==
    LET fresh == freshTimerId(tms)
    IN  IF ~shouldAutoSync(ctx, config)
        THEN [intervalId |-> id, timers |-> tms, clearInterval |-> <<>>, setInterval |-> <<>>]
        ELSE [intervalId |-> fresh,
              timers |-> tms \cup {[id |-> fresh, ms |-> config.pollMs]},
              clearInterval |-> <<>>, setInterval |-> <<config.pollMs>>]

\* (faulty variant) restartPolling gated by canManageThemes alone
restartPollingUngated(id, tms, ctx, config) ==
    LET cleared == IF id # 0 THEN {t \in tms : t.id # id} ELSE tms
        fresh == freshTimerId(cleared)
    IN  IF ~canManageThemes(ctx)
        THEN [intervalId |-> 0, timers |-> cleared,
              clearInterval |-> IF id # 0 THEN <<id>> ELSE <<>>, setInterval |-> <<>>]
        ELSE [intervalId |-> fresh,
              timers |-> cleared \cup {[id |-> fresh, ms |-> config.pollMs]},
              clearInterval |-> IF id # 0 THEN <<id>> ELSE <<>>,
              setInterval |-> <<config.pollMs>>]

\* restartPolling: the new intervalId and live timers, with the calls made
\* (faulty variant) the timer created at the default interval
restartPollingDefaultInterval(id, tms, ctx, config) ==
    LET cleared == IF id # 0 THEN {t \in tms : t.id # id} ELSE tms
        fresh == freshTimerId(cleared)
    IN  IF ~shouldAutoSync(ctx, config)
        THEN [intervalId |-> 0, timers |-> cleared,
              clearInterval |-> IF id # 0 THEN <<id>> ELSE <<>>, setInterval |-> <<>>]
        ELSE [intervalId |-> fresh,
              timers |-> cleared \cup {[id |-> fresh, ms |-> DEFAULT_CONFIG.pollMs]},
              clearInterval |-> IF id # 0 THEN <<id>> ELSE <<>>,
              setInterval |-> <<DEFAULT_CONFIG.pollMs>>]

restartPolling(id, tms, ctx, config) ==
    LET cleared == IF id # 0 THEN {t \in tms : t.id # id} ELSE tms
        fresh == freshTimerId(cleared)
    IN  IF ~shouldAutoSync(ctx, config)
        THEN [intervalId |-> 0, timers |-> cleared,
              clearInterval |-> IF id # 0 THEN <<id>> ELSE <<>>, setInterval |-> <<>>]
        ELSE [intervalId |-> fresh,
              timers |-> cleared \cup {[id |-> fresh, ms |-> config.pollMs]},
              clearInterval |-> IF id # 0 THEN <<id>> ELSE <<>>,
              setInterval |-> <<config.pollMs>>]

\* (faulty variant) maybeNotifyDefaultThemeFallback without its didWarn test
notifiesDefaultThemeFallbackAgain(didWarn, ctx, config) ==
    IF ~canManageThemes(ctx) \/ hasThemeOverrides(config) THEN FALSE
    ELSE ~isDefaultThemeName(ctx.themeName)

\* maybeNotifyDefaultThemeFallback: whether the notification is shown
notifiesDefaultThemeFallback(didWarn, ctx, config) ==
    IF didWarn \/ ~canManageThemes(ctx) \/ hasThemeOverrides(config) THEN FALSE
    ELSE ~isDefaultThemeName(ctx.themeName)

CustomNotice == <<"info", "custom theme, skipping auto-sync">>

\* ------------------------------------------------------------------ Init
Init ==
    /\ platform \in Platforms
    /\ hasUI \in BOOLEAN
    /\ allThemes \in (IF hasUI THEN {{}, KnownThemes} ELSE {{}})
    /\ themeName \in (IF allThemes = {} THEN {Undefined} ELSE allThemes)
    /\ osAppearance \in {"dark", "light"}
    /\ file \in InitialFiles
    /\ activeConfig = DEFAULT_CONFIG
    /\ intervalId = 0
    /\ syncInProgress = FALSE
    /\ lastSetThemeError = Null
    /\ didWarnDefaultThemeFallback = FALSE
    /\ timers = {}
    /\ startPc = "idle"
    /\ cmdPc = "idle"
    /\ draft = DEFAULT_CONFIG
    /\ pass = [c \in Callers |-> "idle"]
    /\ customNotices = 0
    /\ stopped = FALSE
    /\ detectLog = <<>>
    /\ configBeforeSave = DEFAULT_CONFIG
    /\ warnedKeys = {}
    /\ lastAppliedThemeName = Undefined
    /\ missingThemeWarnings = {}
    /\ setThemeWarnings = {}
    /\ handled = <<>>
    /\ typed = <<>>
    /\ out = Quiet

\* A continuation of an await on a settled promise runs before the event
\* loop takes its next event: while one is pending nothing else happens.
NoMicrotask == startPc # "resume" /\ cmdPc # "resume"

countNotice(n) == IF n < MaxCustomNotices THEN n + 1 ELSE n

\* ------------------------------------------------------ the environment
\* the user picks another theme in the host
HostThemeChange ==
    /\ NoMicrotask
    /\ \E name \in allThemes :
        /\ name # themeName
        /\ themeName' = name
    /\ out' = Quiet
    /\ UNCHANGED <<hostVars, osAppearance, file, activeConfig, intervalId, syncInProgress,
                   lastSetThemeError, didWarnDefaultThemeFallback, timers, startPc, cmdPc,
                   draft, pass, customNotices>>
    /\ UNCHANGED stopped
    /\ UNCHANGED <<detectLog, configBeforeSave, warnedKeys, legacyVars, handled, typed>>

\* the operating system switches between dark and light
AppearanceChanges ==
    /\ NoMicrotask
    /\ osAppearance' = (IF osAppearance = "dark" THEN "light" ELSE "dark")
    /\ out' = Quiet
    /\ UNCHANGED <<hostVars, themeName, file, activeConfig, intervalId, syncInProgress,
                   lastSetThemeError, didWarnDefaultThemeFallback, timers, startPc, cmdPc,
                   draft, pass, customNotices>>
    /\ UNCHANGED stopped
    /\ UNCHANGED <<detectLog, configBeforeSave, warnedKeys, legacyVars, typed>>

AppearanceChange ==
    /\ AppearanceChanges
    /\ UNCHANGED handled

\* ------------------------------------------------------------ syncTheme
\* syncTheme up to its await of detectAppearance, called by `caller` with
\* `config` active: the pass either is dropped or starts detecting
SyncThemeCall(caller, config) ==
    IF syncDropped(Ctx, config, syncInProgress)
    THEN /\ UNCHANGED <<syncInProgress, pass>>
    ELSE /\ syncInProgress' = TRUE
         /\ pass' = [pass EXCEPT ![caller] = "detect"]

\* (faulty variant) the pass's promise rejects whatever happened in the pass
PassOverRejected(caller, threw) ==
    /\ startPc' = IF caller = "start" THEN "idle" ELSE startPc
    /\ cmdPc' = IF caller = "cmd" THEN "idle" ELSE cmdPc
    /\ draft' = IF caller = "cmd" THEN DEFAULT_CONFIG ELSE draft

\* the handler of `caller` once its pass is over: the pass's promise settles
\* and the awaiting handler resumes (or is rejected, when the pass threw)
PassOver(caller, threw) ==
    /\ startPc' = IF caller = "start" THEN (IF threw THEN "idle" ELSE "resume") ELSE startPc
    /\ cmdPc' = IF caller = "cmd" THEN (IF threw THEN "idle" ELSE "resume") ELSE cmdPc
    /\ draft' = IF caller = "cmd" /\ threw THEN DEFAULT_CONFIG ELSE draft

\* the answers of ctx.ui.setTheme that a pass can meet: the host is asked
\* only when the pass gets as far as the call
outcomesMet(ctx, config, a) ==
    IF appearanceFound(a) /\ ~themeIsActive(ctx.themeName, targetThemeOf(config, a))
    THEN SetThemeOutcomes ELSE {"ok"}

\* syncTheme from the detected appearance `a` to its return, the host
\* answering setTheme with `outcome`
SyncThemeFinishWith(caller, a, outcome) ==
    LET r == syncThemeApply(Ctx, activeConfig, a, outcome, lastSetThemeError)
    IN  /\ themeName' = r.themeName
        /\ lastSetThemeError' = r.lastSetThemeError
        /\ syncInProgress' = syncInProgressAfter(r.threw)
        /\ pass' = [pass EXCEPT ![caller] = "idle"]
        /\ PassOver(caller, r.threw)
        /\ out' = [Quiet EXCEPT !.setTheme = r.setTheme, !.warn = r.warn,
                                 !.detected = a, !.threw = r.threw]
        /\ UNCHANGED <<hostVars, osAppearance, file, activeConfig, intervalId,
                       didWarnDefaultThemeFallback, timers, customNotices, stopped>>

\* syncTheme from the detected appearance `a` to its return
SyncThemeFinish(caller, a) ==
    \E outcome \in outcomesMet(Ctx, activeConfig, a) : SyncThemeFinishWith(caller, a, outcome)

\* detectAppearance on macOS: the pass goes on with what `defaults` returned
MacReturns(caller, result) ==
    SyncThemeFinish(caller, detectMacAppearance(result))

\* detectLinuxAppearance: the pass goes on with what the color-scheme query
\* returned, asking for gtk-theme when that decides nothing
ColorSchemeReturns(caller, result) ==
    LET fromColorScheme == parseGnomeColorScheme(readGnomeInterfaceSetting(result))
    IN  IF fromColorScheme # "null"
        THEN SyncThemeFinish(caller, fromColorScheme)
        ELSE /\ pass' = [pass EXCEPT ![caller] = "detect2"]
             /\ out' = [Quiet EXCEPT !.exec = <<"gsettings gtk-theme">>]
             /\ UNCHANGED <<hostVars, themeName, osAppearance, file, activeConfig,
                            intervalId, syncInProgress, lastSetThemeError,
                            didWarnDefaultThemeFallback, timers, startPc, cmdPc, draft,
                            customNotices, stopped>>

\* detectLinuxAppearance: the pass goes on with what the gtk-theme query
\* returned
GtkThemeReturns(caller, result) ==
    SyncThemeFinish(caller, parseGtkThemeAppearance(readGnomeInterfaceSetting(result)))

\* detectMacAppearance returns to a suspended pass
DetectMacDone(caller) ==
    /\ NoMicrotask
    /\ platform = "darwin"
    /\ pass[caller] = "detect"
    /\ \E result \in MacResults(osAppearance) : MacReturns(caller, result)
    /\ UNCHANGED <<detectLog, configBeforeSave, warnedKeys, legacyVars, handled, typed>>

\* detectLinuxAppearance: the color-scheme query returns
DetectColorSchemeDone(caller) ==
    /\ NoMicrotask
    /\ platform = "linux"
    /\ pass[caller] = "detect"
    /\ \E result \in ColorSchemeResults(osAppearance) : ColorSchemeReturns(caller, result)
    /\ UNCHANGED <<detectLog, configBeforeSave, warnedKeys, legacyVars, handled, typed>>

\* detectLinuxAppearance: the gtk-theme query returns
DetectGtkThemeDone(caller) ==
    /\ NoMicrotask
    /\ platform = "linux"
    /\ pass[caller] = "detect2"
    /\ \E result \in GtkThemeResults(osAppearance) : GtkThemeReturns(caller, result)
    /\ UNCHANGED <<detectLog, configBeforeSave, warnedKeys, legacyVars, handled, typed>>

\* a polling timer fires: void syncTheme(ctx)
Tick ==
    /\ NoMicrotask
    /\ timers # {}
    /\ SyncThemeCall("tick", activeConfig)
    /\ out' = [Quiet EXCEPT
                   !.exec = IF syncDropped(Ctx, activeConfig, syncInProgress)
                            THEN <<>> ELSE firstCommand(platform)]
    /\ UNCHANGED <<hostVars, themeName, osAppearance, file, activeConfig, intervalId,
                   lastSetThemeError, didWarnDefaultThemeFallback, timers, startPc, cmdPc,
                   draft, customNotices>>
    /\ UNCHANGED stopped
    /\ UNCHANGED <<detectLog, configBeforeSave, warnedKeys, legacyVars, handled, typed>>

\* -------------------------------------------------------- session_start
\* the event arrives: the handler returns at once on an unsupported platform
\* and otherwise awaits loadConfig
SessionStartArrives ==
    /\ NoMicrotask
    /\ startPc = "idle"
    /\ cmdPc = "idle"
    /\ startPc' = IF isSupportedPlatform(platform) THEN "loading" ELSE "idle"
    /\ out' = Quiet
    /\ UNCHANGED <<hostVars, themeName, osAppearance, file, activeConfig, intervalId,
                   syncInProgress, lastSetThemeError, didWarnDefaultThemeFallback, timers,
                   cmdPc, draft, pass, customNotices>>
    /\ stopped' = FALSE
    /\ UNCHANGED <<detectLog, configBeforeSave, warnedKeys, legacyVars>>

SessionStart ==
    /\ SessionStartArrives
    /\ UNCHANGED <<handled, typed>>

\* loadConfig returns: the gate is tested, and either the notification may be
\* shown or syncTheme is called
SessionLoadedWith(command) ==
    /\ NoMicrotask
    /\ startPc = "loading"
    /\ LET loaded == loadConfig(file)
           config == loaded.config
           logged == IF loaded.warned THEN <<"config ignored">> ELSE <<>>
           notifies == notifiesDefaultThemeFallback(didWarnDefaultThemeFallback, Ctx, config)
       IN  /\ activeConfig' = config
           /\ IF ~shouldAutoSync(Ctx, config)
              THEN /\ startPc' = "idle"
                   /\ didWarnDefaultThemeFallback' = (didWarnDefaultThemeFallback \/ notifies)
                   /\ customNotices' = IF notifies THEN countNotice(customNotices)
                                       ELSE customNotices
                   /\ out' = [Quiet EXCEPT
                                  !.warn = logged,
                                  !.notify = IF notifies THEN <<CustomNotice>> ELSE <<>>]
                   /\ UNCHANGED <<syncInProgress, pass>>
              ELSE /\ SyncThemeCall("start", config)
                   /\ startPc' = IF syncDropped(Ctx, config, syncInProgress)
                                 THEN "resume" ELSE "syncing"
                   /\ out' = [Quiet EXCEPT
                                  !.warn = logged,
                                  !.exec = IF syncDropped(Ctx, config, syncInProgress)
                                           THEN <<>> ELSE command]
                   /\ UNCHANGED <<didWarnDefaultThemeFallback, customNotices>>
    /\ UNCHANGED <<hostVars, themeName, osAppearance, file, intervalId, lastSetThemeError,
                   timers, cmdPc, draft>>
    /\ UNCHANGED stopped
    /\ UNCHANGED <<detectLog, configBeforeSave, warnedKeys, legacyVars, handled, typed>>

SessionLoaded == SessionLoadedWith(firstCommand(platform))

\* the handler resumes after `await syncTheme(ctx)`: restartPolling
SessionResume ==
    /\ startPc = "resume"
    /\ LET r == restartPolling(intervalId, timers, Ctx, activeConfig)
       IN  /\ intervalId' = r.intervalId
           /\ timers' = r.timers
           /\ out' = [Quiet EXCEPT
                          !.setInterval = r.setInterval, !.clearInterval = r.clearInterval]
    /\ startPc' = "idle"
    /\ UNCHANGED <<hostVars, themeName, osAppearance, file, activeConfig, syncInProgress,
                   lastSetThemeError, didWarnDefaultThemeFallback, cmdPc, draft, pass,
                   customNotices>>
    /\ UNCHANGED stopped
    /\ UNCHANGED <<detectLog, configBeforeSave, warnedKeys, legacyVars, handled, typed>>

\* ----------------------------------------------------- session_shutdown
SessionShutdown ==
    /\ NoMicrotask
    /\ IF intervalId = 0
       THEN /\ UNCHANGED <<intervalId, timers>>
            /\ out' = Quiet
       ELSE /\ timers' = {t \in timers : t.id # intervalId}
            /\ intervalId' = 0
            /\ out' = [Quiet EXCEPT !.clearInterval = <<intervalId>>]
    /\ UNCHANGED <<hostVars, themeName, osAppearance, file, activeConfig, syncInProgress,
                   lastSetThemeError, didWarnDefaultThemeFallback, startPc, cmdPc, draft,
                   pass, customNotices>>
    /\ stopped' = TRUE
    /\ UNCHANGED <<detectLog, configBeforeSave, warnedKeys, legacyVars, handled, typed>>

\* -------------------------------------------------- /system-theme command
\* promptTheme with what the user typed (Undefined: the prompt was dismissed)
promptTheme(next, currentValue) ==
    IF next = Undefined THEN Undefined
    ELSE LET trimmed == Trim(next)
         IN  IF Len(trimmed) > 0 THEN trimmed ELSE currentValue

\* one round of promptPollMs: the value returned (done), or the warning and
\* another round
promptPollMs(next, currentValue) ==
    IF next = Undefined THEN [done |-> TRUE, set |-> FALSE, value |-> currentValue]
    ELSE LET trimmed == Trim(next)
             parsed == ParseInt(trimmed)
         IN  IF Len(trimmed) = 0 THEN [done |-> TRUE, set |-> TRUE, value |-> currentValue]
             ELSE IF ~parsed.nan /\ parsed.n >= MIN_POLL_MS
             THEN [done |-> TRUE, set |-> TRUE, value |-> parsed.n]
             ELSE [done |-> FALSE, set |-> FALSE, value |-> currentValue]

\* the command is invoked: the two early returns, or the menu opens on a
\* draft copy of the active configuration
CommandInvoked ==
    /\ NoMicrotask
    /\ cmdPc = "idle"
    /\ startPc = "idle"
    /\ IF ~isSupportedPlatform(platform)
       THEN /\ out' = [Quiet EXCEPT
                           !.notify = IF hasUI THEN <<<<"info", "unsupported platform">>>>
                                      ELSE <<>>]
            /\ UNCHANGED <<cmdPc, draft>>
       ELSE IF ~canManageThemes(Ctx)
       THEN /\ out' = [Quiet EXCEPT
                           !.notify = IF hasUI THEN <<<<"info", "needs theme support">>>>
                                      ELSE <<>>]
            /\ UNCHANGED <<cmdPc, draft>>
       ELSE /\ draft' = activeConfig
            /\ cmdPc' = "select"
            /\ out' = Quiet
    /\ UNCHANGED <<hostVars, themeName, osAppearance, file, activeConfig, intervalId,
                   syncInProgress, lastSetThemeError, didWarnDefaultThemeFallback, timers,
                   startPc, pass, customNotices>>
    /\ UNCHANGED stopped
    /\ UNCHANGED <<detectLog, configBeforeSave, warnedKeys, legacyVars>>

CommandInvoke ==
    /\ CommandInvoked
    /\ UNCHANGED <<handled, typed>>

\* The menu loop up to its next exit or re-prompt.  ctx.ui.select and the
\* prompt that follows it read and write only the handler's own draft, so
\* the two awaits are taken in one step.

\* (faulty variant) leaving the menu commits the draft
CommandCancelCommits ==
    /\ NoMicrotask
    /\ cmdPc = "select"
    /\ cmdPc' = "idle"
    /\ activeConfig' = draft
    /\ draft' = DEFAULT_CONFIG
    /\ out' = Quiet
    /\ UNCHANGED <<hostVars, themeName, osAppearance, file, intervalId,
                   syncInProgress, lastSetThemeError, didWarnDefaultThemeFallback, timers,
                   startPc, pass, customNotices, stopped, detectLog, configBeforeSave,
                   warnedKeys, legacyVars, handled, typed>>

\* the user picks Cancel or dismisses the menu
CommandCancel ==
    /\ NoMicrotask
    /\ cmdPc = "select"
    /\ cmdPc' = "idle"
    /\ draft' = DEFAULT_CONFIG
    /\ out' = Quiet
    /\ UNCHANGED <<hostVars, themeName, osAppearance, file, activeConfig, intervalId,
                   syncInProgress, lastSetThemeError, didWarnDefaultThemeFallback, timers,
                   startPc, pass, customNotices>>
    /\ UNCHANGED stopped
    /\ UNCHANGED <<detectLog, configBeforeSave, warnedKeys, legacyVars, handled, typed>>

\* the user picks "Dark theme" and answers the prompt
CommandEditDarkWith(text) ==
    /\ NoMicrotask
    /\ cmdPc = "select"
    /\ LET next == promptTheme(text, draft.darkTheme)
       IN  draft' = IF next # Undefined THEN [draft EXCEPT !.darkTheme = next] ELSE draft
    /\ out' = Quiet
    /\ UNCHANGED <<hostVars, themeName, osAppearance, file, activeConfig, intervalId,
                   syncInProgress, lastSetThemeError, didWarnDefaultThemeFallback, timers,
                   startPc, cmdPc, pass, customNotices>>
    /\ UNCHANGED stopped
    /\ UNCHANGED <<detectLog, configBeforeSave, warnedKeys, legacyVars, handled>>

CommandEditDark ==
    /\ \E text \in DarkThemeInputs \cup {Undefined} : CommandEditDarkWith(text)
    /\ UNCHANGED typed

\* the user picks "Light theme" and answers the prompt
CommandEditLightWith(text) ==
    /\ NoMicrotask
    /\ cmdPc = "select"
    /\ LET next == promptTheme(text, draft.lightTheme)
       IN  draft' = IF next # Undefined THEN [draft EXCEPT !.lightTheme = next] ELSE draft
    /\ out' = Quiet
    /\ UNCHANGED <<hostVars, themeName, osAppearance, file, activeConfig, intervalId,
                   syncInProgress, lastSetThemeError, didWarnDefaultThemeFallback, timers,
                   startPc, cmdPc, pass, customNotices>>
    /\ UNCHANGED stopped
    /\ UNCHANGED <<detectLog, configBeforeSave, warnedKeys, legacyVars, handled>>

CommandEditLight ==
    /\ \E text \in LightThemeInputs \cup {Undefined} : CommandEditLightWith(text)
    /\ UNCHANGED typed

\* the user picks "Poll interval" (from the menu) or is asked again (after a
\* rejected answer) and answers the prompt
CommandEditPollWith(text) ==
    /\ NoMicrotask
    /\ cmdPc \in {"select", "inputPoll"}
    /\ LET r == promptPollMs(text, draft.pollMs)
       IN  /\ draft' = IF r.done /\ r.set THEN [draft EXCEPT !.pollMs = r.value] ELSE draft
           /\ cmdPc' = IF r.done THEN "select" ELSE "inputPoll"
           /\ out' = [Quiet EXCEPT
                          !.notify = IF r.done THEN <<>>
                                     ELSE <<<<"warning", "enter a whole number">>>>]
    /\ UNCHANGED <<hostVars, themeName, osAppearance, file, activeConfig, intervalId,
                   syncInProgress, lastSetThemeError, didWarnDefaultThemeFallback, timers,
                   startPc, pass, customNotices>>
    /\ UNCHANGED stopped
    /\ UNCHANGED <<detectLog, configBeforeSave, warnedKeys, legacyVars, handled>>

CommandEditPoll ==
    /\ \E text \in PollInputs \cup {Undefined} : CommandEditPollWith(text)
    /\ UNCHANGED typed

\* "Save and apply": the draft becomes the active configuration and
\* saveConfig is awaited
CommandSaveChosen ==
    /\ NoMicrotask
    /\ cmdPc = "select"
    /\ activeConfig' = draft
    /\ cmdPc' = "saving"
    /\ out' = Quiet
    /\ UNCHANGED <<hostVars, themeName, osAppearance, file, intervalId, syncInProgress,
                   lastSetThemeError, didWarnDefaultThemeFallback, timers, startPc, draft,
                   pass, customNotices>>
    /\ stopped' = FALSE
    /\ UNCHANGED detectLog

CommandSave ==
    /\ CommandSaveChosen
    /\ UNCHANGED <<configBeforeSave, warnedKeys, legacyVars, handled, typed>>

\* saveConfig returns: the result is reported and syncTheme is called
CommandSaved ==
    /\ NoMicrotask
    /\ cmdPc = "saving"
    /\ LET result == saveConfig(draft)
       IN  /\ file' = result.file
           /\ SyncThemeCall("cmd", activeConfig)
           /\ cmdPc' = IF syncDropped(Ctx, activeConfig, syncInProgress)
                       THEN "resume" ELSE "syncing"
           /\ out' = [Quiet EXCEPT
                          !.notify = IF result.wroteFile
                                     THEN <<<<"info", "saved overrides", result.overrideCount>>>>
                                     ELSE <<<<"info", "no overrides left">>>>,
                          !.exec = IF syncDropped(Ctx, activeConfig, syncInProgress)
                                   THEN <<>> ELSE firstCommand(platform)]
    /\ UNCHANGED <<hostVars, themeName, osAppearance, activeConfig, intervalId,
                   lastSetThemeError, didWarnDefaultThemeFallback, timers, startPc, draft,
                   customNotices>>
    /\ UNCHANGED stopped
    /\ UNCHANGED <<detectLog, configBeforeSave, warnedKeys, legacyVars, handled, typed>>

\* saveConfig fails (rm, mkdir or writeFile rejects): the error is shown and
\* the handler returns
CommandSaveFailed ==
    /\ NoMicrotask
    /\ cmdPc = "saving"
    /\ cmdPc' = "idle"
    /\ draft' = DEFAULT_CONFIG
    /\ out' = [Quiet EXCEPT !.notify = <<<<"error", "failed to save config">>>>]
    /\ UNCHANGED <<hostVars, themeName, osAppearance, file, activeConfig, intervalId,
                   syncInProgress, lastSetThemeError, didWarnDefaultThemeFallback, timers,
                   startPc, pass, customNotices>>
    /\ UNCHANGED stopped
    /\ UNCHANGED <<detectLog, configBeforeSave, warnedKeys, legacyVars, handled, typed>>

\* the handler resumes after `await syncTheme(ctx)`: restartPolling, then
\* maybeNotifyDefaultThemeFallback
CommandResume ==
    /\ cmdPc = "resume"
    /\ LET r == restartPolling(intervalId, timers, Ctx, activeConfig)
           notifies == notifiesDefaultThemeFallback(didWarnDefaultThemeFallback, Ctx,
                                                    activeConfig)
       IN  /\ intervalId' = r.intervalId
           /\ timers' = r.timers
           /\ didWarnDefaultThemeFallback' = (didWarnDefaultThemeFallback \/ notifies)
           /\ customNotices' = IF notifies THEN countNotice(customNotices) ELSE customNotices
           /\ out' = [Quiet EXCEPT
                          !.setInterval = r.setInterval, !.clearInterval = r.clearInterval,
                          !.notify = IF notifies THEN <<CustomNotice>> ELSE <<>>]
    /\ cmdPc' = "idle"
    /\ draft' = DEFAULT_CONFIG
    /\ UNCHANGED <<hostVars, themeName, osAppearance, file, activeConfig, syncInProgress,
                   lastSetThemeError, startPc, pass>>
    /\ UNCHANGED stopped
    /\ UNCHANGED <<detectLog, configBeforeSave, warnedKeys, legacyVars, handled, typed>>

\* ------------------------------------------------------------------ Next
Next ==
    \/ HostThemeChange
    \/ AppearanceChange
    \/ SessionStart
    \/ SessionLoaded
    \/ SessionResume
    \/ SessionShutdown
    \/ Tick
    \/ \E caller \in Callers : DetectMacDone(caller)
    \/ \E caller \in Callers : DetectColorSchemeDone(caller)
    \/ \E caller \in Callers : DetectGtkThemeDone(caller)
    \/ CommandInvoke
    \/ CommandCancel
    \/ CommandEditDark
    \/ CommandEditLight
    \/ CommandEditPoll
    \/ CommandSave
    \/ CommandSaved
    \/ CommandSaveFailed
    \/ CommandResume

Spec == Init /\ [][Next]_vars

\* ------------------------------------------------------- the config store
\* The configuration alone, over many more files and answers than Spec can
\* afford: activeConfig is assigned at construction, by session_start from
\* loadConfig, and by "Save and apply" from the draft, and nowhere else.  The
\* sync engine and the scheduler are left out (no pass starts, no timer is
\* created); the menu is the one of Spec.

\* what the keys of a hand-written override file may hold
StoredThemeValues ==
    {JUndef, JStr(<<" ">>), JStr(<<" ", "r", "o", "s", "e", "\n">>), JStr(Dark), JNum(10)}
StoredPollValues ==
    {JUndef, JNum(0), JNum(0 - 15), JNum(4994), JNum(4995), JNum(5996), JNum(6005),
     JNum(20000), JInf, JStr(<<"9", "0", "0">>), JBool}

StoredFiles ==
    {FileAbsent, FileBad("unreadable"), FileBad("notjson"), FileBad("array")}
    \cup {FileObject(d, l, p) :
            d \in StoredThemeValues, l \in StoredThemeValues, p \in StoredPollValues}

\* what the user types into the interval prompt
TypedPollInputs ==
    PollInputs \cup {<<"5", "0", "0">>, <<"6", "0", "0">>, <<"6", "0", "0", ".", "7">>,
                     <<"-", "6", "0", "0">>, <<"1", "e", "3">>}

ConfigInit ==
    /\ platform = "darwin"
    /\ hasUI = TRUE
    /\ allThemes = KnownThemes
    /\ themeName = Dark
    /\ osAppearance = "dark"
    /\ file \in StoredFiles
    /\ activeConfig = DEFAULT_CONFIG
    /\ intervalId = 0
    /\ syncInProgress = FALSE
    /\ lastSetThemeError = Null
    /\ didWarnDefaultThemeFallback = FALSE
    /\ timers = {}
    /\ startPc = "idle"
    /\ cmdPc = "idle"
    /\ draft = DEFAULT_CONFIG
    /\ pass = [c \in Callers |-> "idle"]
    /\ customNotices = 0
    /\ stopped = FALSE
    /\ detectLog = <<>>
    /\ configBeforeSave = DEFAULT_CONFIG
    /\ warnedKeys = {}
    /\ lastAppliedThemeName = Undefined
    /\ missingThemeWarnings = {}
    /\ setThemeWarnings = {}
    /\ handled = <<>>
    /\ typed = <<>>
    /\ out = Quiet

\* session_start's `activeConfig = await loadConfig()`
StoreLoad ==
    /\ startPc = "loading"
    /\ startPc' = "idle"
    /\ LET loaded == loadConfig(file)
       IN  /\ activeConfig' = loaded.config
           /\ out' = [Quiet EXCEPT
                          !.warn = IF loaded.warned THEN <<"config ignored">> ELSE <<>>]
    /\ UNCHANGED <<hostVars, themeName, osAppearance, file, intervalId, syncInProgress,
                   lastSetThemeError, didWarnDefaultThemeFallback, timers, cmdPc,
                   draft, pass, customNotices, stopped>>
    /\ UNCHANGED <<detectLog, configBeforeSave, warnedKeys, legacyVars, handled, typed>>

\* the interval prompt, answered with any of TypedPollInputs
StoreEditPoll ==
    /\ cmdPc \in {"select", "inputPoll"}
    /\ \E text \in TypedPollInputs \cup {Undefined} :
        LET r == promptPollMs(text, draft.pollMs)
        IN  /\ draft' = IF r.done /\ r.set THEN [draft EXCEPT !.pollMs = r.value] ELSE draft
            /\ cmdPc' = IF r.done THEN "select" ELSE "inputPoll"
            /\ out' = [Quiet EXCEPT
                           !.notify = IF r.done THEN <<>>
                                      ELSE <<<<"warning", "enter a whole number">>>>]
    /\ UNCHANGED <<hostVars, themeName, osAppearance, file, activeConfig, intervalId,
                   syncInProgress, lastSetThemeError, didWarnDefaultThemeFallback, timers,
                   startPc, pass, customNotices, stopped>>
    /\ UNCHANGED <<detectLog, configBeforeSave, warnedKeys, legacyVars, handled, typed>>

\* "Save and apply" as far as the store goes: the draft becomes the active
\* configuration, saveConfig writes or removes the file, the result is shown
StoreSave ==
    /\ cmdPc = "select"
    /\ LET result == saveConfig(draft)
       IN  /\ activeConfig' = draft
           /\ file' = result.file
           /\ out' = [Quiet EXCEPT
                          !.notify = IF result.wroteFile
                                     THEN <<<<"info", "saved overrides", result.overrideCount>>>>
                                     ELSE <<<<"info", "no overrides left">>>>]
    /\ cmdPc' = "idle"
    /\ draft' = DEFAULT_CONFIG
    /\ UNCHANGED <<hostVars, themeName, osAppearance, intervalId, syncInProgress,
                   lastSetThemeError, didWarnDefaultThemeFallback, timers, startPc, pass,
                   customNotices, stopped>>
    /\ UNCHANGED <<detectLog, configBeforeSave, warnedKeys, legacyVars, handled, typed>>

ConfigNext ==
    \/ SessionStart
    \/ StoreLoad
    \/ CommandInvoke
    \/ CommandCancel
    \/ CommandEditDark
    \/ CommandEditLight
    \/ StoreEditPoll
    \/ StoreSave

ConfigSpec == ConfigInit /\ [][ConfigNext]_vars

\* ------------------------------------------------------------ detection
\* session_start alone, over many more command results than Spec can afford,
\* whatever the operating system is set to.  detectLog keeps what the
\* commands of the pass in flight (or of the last pass) returned, in order.

Quoted(text) == <<"'">> \o text \o <<"'", "\n">>

AnyMacResults ==
    {Ok(StdoutMacDark), Ok(StdoutMacLight), Ok(StdoutMacOther), Ok(<<>>),
     Ok(<<" ", "D", "A", "R", "K", " ", "\n">>),
     Ok(<<"\"", "L", "i", "g", "h", "t", "\"", "\n">>),
     Ok(<<"'", "D", "a", "r", "k", "\n">>),
     Ok(<<"D", "a", "r", "k", "e", "r", "\n">>),
     Ok(DoesNotExist),
     Failed(StderrMacNoKey), Failed(StderrOther), Failed(Undefined), Failed(<<>>),
     Failed(Dark)}

AnyColorSchemeResults ==
    {Ok(StdoutPreferDark), Ok(StdoutPreferLight), Ok(StdoutSchemeDefault), Ok(<<>>),
     Ok(PreferDark), Ok(Quoted(<<"P", "r", "e", "f", "e", "r", "-", "L", "i", "g", "h", "t">>)),
     Ok(Quoted(Dark)),
     Failed(StderrOther), Failed(Undefined), Failed(PreferDark)}

AnyGtkThemeResults ==
    {Ok(StdoutGtkDark), Ok(StdoutGtkLight), Ok(StdoutGtkPlain), Ok(<<>>), Ok(Quoted(<<>>)),
     Ok(Quoted(<<"H", "i", "g", "h", "l", "i", "g", "h", "t", "-", "D", "a", "r", "k">>)),
     Ok(Quoted(<<"D", "a", "r", "k", "-", "H", "i", "g", "h", "l", "i", "g", "h", "t">>)),
     Failed(StderrOther), Failed(Undefined), Failed(Dark)}

DetectInit ==
    /\ platform \in {"darwin", "linux"}
    /\ hasUI = TRUE
    /\ allThemes = KnownThemes
    /\ themeName \in KnownThemes
    /\ osAppearance \in {"dark", "light"}
    /\ file \in InitialFiles
    /\ activeConfig = DEFAULT_CONFIG
    /\ intervalId = 0
    /\ syncInProgress = FALSE
    /\ lastSetThemeError = Null
    /\ didWarnDefaultThemeFallback = FALSE
    /\ timers = {}
    /\ startPc = "idle"
    /\ cmdPc = "idle"
    /\ draft = DEFAULT_CONFIG
    /\ pass = [c \in Callers |-> "idle"]
    /\ customNotices = 0
    /\ stopped = FALSE
    /\ detectLog = <<>>
    /\ configBeforeSave = DEFAULT_CONFIG
    /\ warnedKeys = {}
    /\ lastAppliedThemeName = Undefined
    /\ missingThemeWarnings = {}
    /\ setThemeWarnings = {}
    /\ handled = <<>>
    /\ typed = <<>>
    /\ out = Quiet

\* `defaults read -g AppleInterfaceStyle` returns to session_start's pass
ProbeMacDone ==
    /\ platform = "darwin"
    /\ pass["start"] = "detect"
    /\ \E result \in AnyMacResults :
        /\ MacReturns("start", result)
        /\ detectLog' = <<result>>
        /\ UNCHANGED <<configBeforeSave, warnedKeys, legacyVars, handled, typed>>

\* the color-scheme query returns to session_start's pass
ProbeColorSchemeDone ==
    /\ platform = "linux"
    /\ pass["start"] = "detect"
    /\ \E result \in AnyColorSchemeResults :
        /\ ColorSchemeReturns("start", result)
        /\ detectLog' = <<result>>
        /\ UNCHANGED <<configBeforeSave, warnedKeys, legacyVars, handled, typed>>

\* the gtk-theme query returns to session_start's pass
ProbeGtkThemeDone ==
    /\ platform = "linux"
    /\ pass["start"] = "detect2"
    /\ \E result \in AnyGtkThemeResults :
        /\ GtkThemeReturns("start", result)
        /\ detectLog' = Append(detectLog, result)
        /\ UNCHANGED <<configBeforeSave, warnedKeys, legacyVars, handled, typed>>

DetectNext ==
    \/ SessionStart
    \/ SessionLoaded
    \/ SessionResume
    \/ ProbeMacDone
    \/ ProbeColorSchemeDone
    \/ ProbeGtkThemeDone

DetectSpec == DetectInit /\ [][DetectNext]_vars

\* -------------------------------------------------------------- Windows
\* The revision with Windows detection: process.platform "win32" is
\* supported, and a pass asks the registry for AppsUseLightTheme under the
\* Personalize key: the hexadecimal dword in the output decides, 0x0 for
\* dark and anything else for light; a failed command decides nothing.

StdoutRegDark ==
    <<"H", "K", "E", "Y", "_", "C", "U", "R", "R", "E", "N", "T", "_", "U", "S", "E",
      "R", "\\", "S", "o", "f", "t", "w", "a", "r", "e", "\\", "M", "i", "c", "r", "o",
      "s", "o", "f", "t", "\\", "W", "i", "n", "d", "o", "w", "s", "\\", "C", "u", "r",
      "r", "e", "n", "t", "V", "e", "r", "s", "i", "o", "n", "\\", "T", "h", "e", "m",
      "e", "s", "\\", "P", "e", "r", "s", "o", "n", "a", "l", "i", "z", "e", "\n", " ",
      " ", " ", " ", "A", "p", "p", "s", "U", "s", "e", "L", "i", "g", "h", "t", "T",
      "h", "e", "m", "e", " ", " ", " ", " ", "R", "E", "G", "_", "D", "W", "O", "R",
      "D", " ", " ", " ", " ", "0", "x", "0", "\n">>
StdoutRegLight ==
    <<"H", "K", "E", "Y", "_", "C", "U", "R", "R", "E", "N", "T", "_", "U", "S", "E",
      "R", "\\", "S", "o", "f", "t", "w", "a", "r", "e", "\\", "M", "i", "c", "r", "o",
      "s", "o", "f", "t", "\\", "W", "i", "n", "d", "o", "w", "s", "\\", "C", "u", "r",
      "r", "e", "n", "t", "V", "e", "r", "s", "i", "o", "n", "\\", "T", "h", "e", "m",
      "e", "s", "\\", "P", "e", "r", "s", "o", "n", "a", "l", "i", "z", "e", "\n", " ",
      " ", " ", " ", "A", "p", "p", "s", "U", "s", "e", "L", "i", "g", "h", "t", "T",
      "h", "e", "m", "e", " ", " ", " ", " ", "R", "E", "G", "_", "D", "W", "O", "R",
      "D", " ", " ", " ", " ", "0", "x", "1", "\n">>
StdoutRegZeros ==
    <<"H", "K", "E", "Y", "_", "C", "U", "R", "R", "E", "N", "T", "_", "U", "S", "E",
      "R", "\\", "S", "o", "f", "t", "w", "a", "r", "e", "\\", "M", "i", "c", "r", "o",
      "s", "o", "f", "t", "\\", "W", "i", "n", "d", "o", "w", "s", "\\", "C", "u", "r",
      "r", "e", "n", "t", "V", "e", "r", "s", "i", "o", "n", "\\", "T", "h", "e", "m",
      "e", "s", "\\", "P", "e", "r", "s", "o", "n", "a", "l", "i", "z", "e", "\n", " ",
      " ", " ", " ", "A", "p", "p", "s", "U", "s", "e", "L", "i", "g", "h", "t", "T",
      "h", "e", "m", "e", " ", " ", " ", " ", "R", "E", "G", "_", "D", "W", "O", "R",
      "D", " ", " ", " ", " ", "0", "x", "0", "0", "0", "0", "0", "0", "0", "0", "\n">>
StdoutRegSixteen ==
    <<"H", "K", "E", "Y", "_", "C", "U", "R", "R", "E", "N", "T", "_", "U", "S", "E",
      "R", "\\", "S", "o", "f", "t", "w", "a", "r", "e", "\\", "M", "i", "c", "r", "o",
      "s", "o", "f", "t", "\\", "W", "i", "n", "d", "o", "w", "s", "\\", "C", "u", "r",
      "r", "e", "n", "t", "V", "e", "r", "s", "i", "o", "n", "\\", "T", "h", "e", "m",
      "e", "s", "\\", "P", "e", "r", "s", "o", "n", "a", "l", "i", "z", "e", "\n", " ",
      " ", " ", " ", "A", "p", "p", "s", "U", "s", "e", "L", "i", "g", "h", "t", "T",
      "h", "e", "m", "e", " ", " ", " ", " ", "R", "E", "G", "_", "D", "W", "O", "R",
      "D", " ", " ", " ", " ", "0", "x", "1", "0", "\n">>
StdoutRegNoValue ==
    <<"H", "K", "E", "Y", "_", "C", "U", "R", "R", "E", "N", "T", "_", "U", "S", "E",
      "R", "\\", "S", "o", "f", "t", "w", "a", "r", "e", "\\", "M", "i", "c", "r", "o",
      "s", "o", "f", "t", "\\", "W", "i", "n", "d", "o", "w", "s", "\\", "C", "u", "r",
      "r", "e", "n", "t", "V", "e", "r", "s", "i", "o", "n", "\\", "T", "h", "e", "m",
      "e", "s", "\\", "P", "e", "r", "s", "o", "n", "a", "l", "i", "z", "e", "\n">>

RegistryResults ==
    {Ok(StdoutRegDark), Ok(StdoutRegLight), Ok(StdoutRegZeros), Ok(StdoutRegSixteen),
     Ok(StdoutRegNoValue), Ok(<<>>), Failed(Undefined), Failed(StderrOther)}

RegistryCommand == <<"reg query AppsUseLightTheme">>

IsHexDigit(c) ==
    IsDigit(c) \/ c \in {"a", "b", "c", "d", "e", "f", "A", "B", "C", "D", "E", "F"}

\* the hexadecimal digits of `s` from position i on
RECURSIVE HexRun(_, _)
HexRun(s, i) ==
    IF i <= Len(s) /\ IsHexDigit(s[i]) THEN <<s[i]>> \o HexRun(s, i + 1) ELSE <<>>

\* the digits of the first 0x... number in the output, or Null without one
parseRegistryDword(stdout) ==
    LET starts == {i \in 1..(Len(stdout) - 2) :
                      /\ stdout[i] = "0"
                      /\ stdout[i + 1] \in {"x", "X"}
                      /\ IsHexDigit(stdout[i + 2])}
    IN  IF starts = {} THEN Null
        ELSE HexRun(stdout, 2 + CHOOSE i \in starts : \A k \in starts : i <= k)

\* (faulty variant) the dword read as AppsUseDarkTheme
detectWindowsAppearanceInverted(result) ==
    IF ~result.ok THEN "null"
    ELSE LET digits == parseRegistryDword(result.stdout)
         IN  IF digits = Null THEN "null"
             ELSE IF \A k \in 1..Len(digits) : digits[k] = "0" THEN "light"
             ELSE "dark"

detectWindowsAppearance(result) ==
    IF ~result.ok THEN "null"
    ELSE LET digits == parseRegistryDword(result.stdout)
         IN  IF digits = Null THEN "null"
             ELSE IF \A k \in 1..Len(digits) : digits[k] = "0" THEN "dark"
             ELSE "light"

WinInit ==
    /\ platform = "win32"
    /\ hasUI = TRUE
    /\ allThemes = KnownThemes
    /\ themeName \in KnownThemes
    /\ osAppearance \in {"dark", "light"}
    /\ file \in InitialFiles
    /\ activeConfig = DEFAULT_CONFIG
    /\ intervalId = 0
    /\ syncInProgress = FALSE
    /\ lastSetThemeError = Null
    /\ didWarnDefaultThemeFallback = FALSE
    /\ timers = {}
    /\ startPc = "idle"
    /\ cmdPc = "idle"
    /\ draft = DEFAULT_CONFIG
    /\ pass = [c \in Callers |-> "idle"]
    /\ customNotices = 0
    /\ stopped = FALSE
    /\ detectLog = <<>>
    /\ configBeforeSave = DEFAULT_CONFIG
    /\ warnedKeys = {}
    /\ lastAppliedThemeName = Undefined
    /\ missingThemeWarnings = {}
    /\ setThemeWarnings = {}
    /\ handled = <<>>
    /\ typed = <<>>
    /\ out = Quiet

\* session_start arrives on Windows: the handler awaits loadConfig
WinSessionStart ==
    /\ NoMicrotask
    /\ platform = "win32"
    /\ startPc = "idle"
    /\ cmdPc = "idle"
    /\ startPc' = "loading"
    /\ out' = Quiet
    /\ stopped' = FALSE
    /\ UNCHANGED <<hostVars, themeName, osAppearance, file, activeConfig, intervalId,
                   syncInProgress, lastSetThemeError, didWarnDefaultThemeFallback, timers,
                   cmdPc, draft, pass, customNotices, detectLog,
                   configBeforeSave, warnedKeys, legacyVars, handled, typed>>

\* loadConfig returns on Windows: behind the gate the pass asks the registry
WinSessionLoaded ==
    /\ platform = "win32"
    /\ SessionLoadedWith(RegistryCommand)

\* the registry query returns to session_start's pass
WinRegistryDone ==
    /\ platform = "win32"
    /\ pass["start"] = "detect"
    /\ \E result \in RegistryResults :
        /\ SyncThemeFinish("start", detectWindowsAppearance(result))
        /\ detectLog' = <<result>>
        /\ UNCHANGED <<configBeforeSave, warnedKeys, legacyVars, handled, typed>>

WinNext ==
    \/ WinSessionStart
    \/ WinSessionLoaded
    \/ WinRegistryDone
    \/ SessionResume

WinSpec == WinInit /\ [][WinNext]_vars

\* ------------------------------------------------------------- the menu
\* The settings command on macOS with its save path, failures of saveConfig
\* included, next to the timer it restarts.  configBeforeSave remembers the
\* active configuration at the moment "Save and apply" is chosen.

SaveInit ==
    /\ platform = "darwin"
    /\ hasUI = TRUE
    /\ allThemes = KnownThemes
    /\ themeName \in KnownThemes
    /\ osAppearance \in {"dark", "light"}
    /\ file \in InitialFiles
    /\ activeConfig = DEFAULT_CONFIG
    /\ intervalId = 0
    /\ syncInProgress = FALSE
    /\ lastSetThemeError = Null
    /\ didWarnDefaultThemeFallback = FALSE
    /\ timers = {}
    /\ startPc = "idle"
    /\ cmdPc = "idle"
    /\ draft = DEFAULT_CONFIG
    /\ pass = [c \in Callers |-> "idle"]
    /\ customNotices = 0
    /\ stopped = FALSE
    /\ detectLog = <<>>
    /\ configBeforeSave = DEFAULT_CONFIG
    /\ warnedKeys = {}
    /\ lastAppliedThemeName = Undefined
    /\ missingThemeWarnings = {}
    /\ setThemeWarnings = {}
    /\ handled = <<>>
    /\ typed = <<>>
    /\ out = Quiet

\* "Save and apply" is chosen
SaveChosen ==
    /\ CommandSaveChosen
    /\ configBeforeSave' = activeConfig
    /\ UNCHANGED <<warnedKeys, legacyVars, handled, typed>>

SaveNext ==
    \/ CommandInvoke
    \/ CommandCancel
    \/ CommandEditDark
    \/ CommandEditLight
    \/ CommandEditPoll
    \/ SaveChosen
    \/ CommandSaved
    \/ CommandSaveFailed
    \/ CommandResume
    \/ Tick
    \/ \E caller \in Callers : DetectMacDone(caller)

SaveSpec == SaveInit /\ [][SaveNext]_vars

\* ------------------------------------------------------------- warnings
\* Session start and polling on macOS while the appearance changes, with a
\* record of the warnings about setTheme: warnedKeys holds the keys
\* ("theme:message") logged since setTheme last succeeded.

WarnInit ==
    /\ platform = "darwin"
    /\ hasUI = TRUE
    /\ allThemes = KnownThemes
    /\ themeName \in KnownThemes
    /\ osAppearance \in {"dark", "light"}
    /\ file \in InitialFiles
    /\ activeConfig = DEFAULT_CONFIG
    /\ intervalId = 0
    /\ syncInProgress = FALSE
    /\ lastSetThemeError = Null
    /\ didWarnDefaultThemeFallback = FALSE
    /\ timers = {}
    /\ startPc = "idle"
    /\ cmdPc = "idle"
    /\ draft = DEFAULT_CONFIG
    /\ pass = [c \in Callers |-> "idle"]
    /\ customNotices = 0
    /\ stopped = FALSE
    /\ detectLog = <<>>
    /\ configBeforeSave = DEFAULT_CONFIG
    /\ warnedKeys = {}
    /\ lastAppliedThemeName = Undefined
    /\ missingThemeWarnings = {}
    /\ setThemeWarnings = {}
    /\ handled = <<>>
    /\ typed = <<>>
    /\ out = Quiet

\* detectMacAppearance returns to a suspended pass, and the pass ends
WarnMacDone ==
    /\ NoMicrotask
    /\ platform = "darwin"
    /\ \E caller \in Callers :
        /\ pass[caller] = "detect"
        /\ \E result \in MacResults(osAppearance) : MacReturns(caller, result)
    /\ warnedKeys' =
          IF out'.setTheme = <<>> \/ out'.threw THEN warnedKeys
          ELSE IF lastSetThemeError' = Null THEN {}
          ELSE IF out'.warn # <<>> THEN warnedKeys \cup {lastSetThemeError'}
          ELSE warnedKeys
    /\ UNCHANGED <<detectLog, configBeforeSave, legacyVars, handled, typed>>

WarnNext ==
    \/ AppearanceChange
    \/ SessionStart
    \/ SessionLoaded
    \/ SessionResume
    \/ Tick
    \/ WarnMacDone

WarnSpec == WarnInit /\ [][WarnNext]_vars

\* ------------------------------------------------------------- the prompts
\* The menu alone, with what the user answers to a field prompt recorded in
\* `typed`: the field and the text (Undefined: the prompt was dismissed).

AnsweredThemes ==
    {Undefined, <<>>, <<" ">>, <<" ", "\n">>, <<" ", "r", "o", "s", "e", " ">>, Dark}

AnsweredIntervals ==
    TypedPollInputs \cup {Undefined, <<>>, <<"6", "0", "0", "x">>, <<" ", "7", "5", "0", " ">>}

PromptInit ==
    /\ platform = "darwin"
    /\ hasUI = TRUE
    /\ allThemes = KnownThemes
    /\ themeName = Dark
    /\ osAppearance = "dark"
    /\ file = FileAbsent
    /\ activeConfig = DEFAULT_CONFIG
    /\ intervalId = 0
    /\ syncInProgress = FALSE
    /\ lastSetThemeError = Null
    /\ didWarnDefaultThemeFallback = FALSE
    /\ timers = {}
    /\ startPc = "idle"
    /\ cmdPc = "idle"
    /\ draft = DEFAULT_CONFIG
    /\ pass = [c \in Callers |-> "idle"]
    /\ customNotices = 0
    /\ stopped = FALSE
    /\ detectLog = <<>>
    /\ configBeforeSave = DEFAULT_CONFIG
    /\ warnedKeys = {}
    /\ lastAppliedThemeName = Undefined
    /\ missingThemeWarnings = {}
    /\ setThemeWarnings = {}
    /\ handled = <<>>
    /\ typed = <<>>
    /\ out = Quiet

\* the user picks "Dark theme" and answers the prompt
PromptDark ==
    \E text \in AnsweredThemes :
        /\ CommandEditDarkWith(text)
        /\ typed' = <<"darkTheme", text>>

\* the user picks "Light theme" and answers the prompt
PromptLight ==
    \E text \in AnsweredThemes :
        /\ CommandEditLightWith(text)
        /\ typed' = <<"lightTheme", text>>

\* the user picks "Poll interval", or is asked again, and answers the prompt
PromptPoll ==
    \E text \in AnsweredIntervals :
        /\ CommandEditPollWith(text)
        /\ typed' = <<"pollMs", text>>

PromptNext ==
    \/ CommandInvoke
    \/ CommandCancel
    \/ PromptDark
    \/ PromptLight
    \/ PromptPoll

PromptSpec == PromptInit /\ [][PromptNext]_vars

\* ------------------------------------------------------------ the handlers
\* The machine of Spec with the arrivals of session_start and of the command
\* recorded in `handled`, so that a handler that returns at once (unsupported
\* platform, no theme support) is a step like any other.  The menu can only
\* be left without saving.

MaxHandled == 4

\* detectAppearance's switch: what the platform's backend detected, or null
\* when the platform has none
detectAppearance(p, fromBackend) ==
    IF p = "darwin" THEN fromBackend
    ELSE IF p = "linux" THEN fromBackend
    ELSE "null"

HandlerInit == Init

\* session_start arrives
StartHandled ==
    /\ Len(handled) < MaxHandled
    /\ SessionStartArrives
    /\ handled' = Append(handled, "session_start")
    /\ UNCHANGED typed

\* the command is invoked
InvokeHandled ==
    /\ Len(handled) < MaxHandled
    /\ CommandInvoked
    /\ handled' = Append(handled, "command")
    /\ UNCHANGED typed

\* detectAppearance is called on a platform without a backend (no handler
\* gets that far there): the default branch returns at once
DetectHandled ==
    /\ Len(handled) < MaxHandled
    /\ NoMicrotask
    /\ platform \notin {"darwin", "linux"}
    /\ handled' = Append(handled, "detect")
    /\ UNCHANGED typed
    /\ out' = [Quiet EXCEPT !.exec = firstCommand(platform),
                             !.detected = detectAppearance(platform, osAppearance)]
    /\ UNCHANGED <<hostVars, themeName, osAppearance, file, activeConfig, intervalId,
                   syncInProgress, lastSetThemeError, didWarnDefaultThemeFallback, timers,
                   startPc, cmdPc, draft, pass, customNotices, stopped, detectLog,
                   configBeforeSave, warnedKeys, legacyVars>>

HandlerNext ==
    \/ HostThemeChange
    \/ AppearanceChange
    \/ StartHandled
    \/ SessionLoaded
    \/ SessionResume
    \/ SessionShutdown
    \/ Tick
    \/ \E caller \in Callers : DetectMacDone(caller)
    \/ \E caller \in Callers : DetectColorSchemeDone(caller)
    \/ \E caller \in Callers : DetectGtkThemeDone(caller)
    \/ InvokeHandled
    \/ CommandCancel
    \/ DetectHandled

HandlerSpec == HandlerInit /\ [][HandlerNext]_vars

\* ------------------------------------------------------------- liveness
\* The machine of HandlerSpec in a benign environment: the appearance of the
\* system changes a bounded number of times and then stays, the host's theme
\* changes only through the extension, there is no session_shutdown,
\* saveConfig succeeds, every detection finds the system's appearance and the
\* host accepts every theme it is asked to apply.  The event loop is fair to
\* timers and to the continuations of awaits; the user is not bound to do
\* anything.

LiveInit ==
    /\ Init
    /\ platform \in {"darwin", "linux"}
    /\ hasUI
    /\ allThemes = KnownThemes

\* the system's appearance changes
AppearanceHandled ==
    /\ Len(handled) < MaxHandled
    /\ AppearanceChanges
    /\ handled' = Append(handled, "appearance")

\* detectMacAppearance returns the system's appearance and the host accepts
LiveMacDone ==
    \E caller \in Callers :
        /\ NoMicrotask
        /\ platform = "darwin"
        /\ pass[caller] = "detect"
        /\ SyncThemeFinishWith(caller, osAppearance, "ok")
        /\ UNCHANGED <<detectLog, configBeforeSave, warnedKeys, legacyVars, handled, typed>>

\* the color-scheme query finds the system's appearance, or nothing, upon
\* which gtk-theme is asked
LiveColorSchemeDone ==
    \E caller \in Callers :
        /\ NoMicrotask
        /\ platform = "linux"
        /\ pass[caller] = "detect"
        /\ \E result \in ColorSchemeResults(osAppearance) :
            LET fromColorScheme == parseGnomeColorScheme(readGnomeInterfaceSetting(result))
            IN  /\ fromColorScheme \in {osAppearance, "null"}
                /\ IF fromColorScheme = "null" THEN ColorSchemeReturns(caller, result)
                   ELSE SyncThemeFinishWith(caller, osAppearance, "ok")
        /\ UNCHANGED <<detectLog, configBeforeSave, warnedKeys, legacyVars, handled, typed>>

\* the gtk-theme query gives the system's appearance and the host accepts
LiveGtkThemeDone ==
    \E caller \in Callers :
        /\ NoMicrotask
        /\ platform = "linux"
        /\ pass[caller] = "detect2"
        /\ SyncThemeFinishWith(caller, osAppearance, "ok")
        /\ UNCHANGED <<detectLog, configBeforeSave, warnedKeys, legacyVars, handled, typed>>

LiveNext ==
    \/ AppearanceHandled
    \/ StartHandled
    \/ SessionLoaded
    \/ SessionResume
    \/ Tick
    \/ LiveMacDone
    \/ LiveColorSchemeDone
    \/ LiveGtkThemeDone
    \/ InvokeHandled
    \/ CommandCancel
    \/ CommandEditDark
    \/ CommandEditLight
    \/ CommandEditPoll
    \/ CommandSave
    \/ CommandSaved
    \/ CommandResume

\* timers fire, commands return, settled awaits resume
LiveFairness ==
    /\ WF_vars(Tick)
    /\ WF_vars(LiveMacDone)
    /\ WF_vars(LiveColorSchemeDone)
    /\ WF_vars(LiveGtkThemeDone)
    /\ WF_vars(SessionLoaded)
    /\ WF_vars(SessionResume)
    /\ WF_vars(CommandSaved)
    /\ WF_vars(CommandResume)

LiveSpec == LiveInit /\ [][LiveNext]_vars /\ LiveFairness

\* ------------------------------------------------- the fallback revision
\* The revision of src/index.ts that starts at line 360: macOS only, no
\* gate; a theme the host does not know is replaced by the built-in theme of
\* the appearance, and a theme the host rejects is followed by an attempt
\* with the built-in one.  Warnings are remembered in two sets.

Ghost == <<"g", "h", "o", "s", "t">>

FallbackFiles ==
    {FileAbsent,
     FileBad("notjson"),
     FileObject(JStr(<<" ", "r", "o", "s", "e", "\n">>), JUndef, JNum(0)),
     FileObject(JStr(Ghost), JStr(Rose), JNum(5996))}

\* the sets of themes a host may know
FallbackThemeSets == {KnownThemes, {Light, Rose}}

\* a string, or Undefined
toNonEmptyString(value) ==
    IF value.t # "string" THEN Undefined
    ELSE LET trimmed == Trim(value.s)
         IN  IF Len(trimmed) > 0 THEN trimmed ELSE Undefined

\* a positive integer, or 0 for undefined
toPositiveInteger(value) ==
    IF value.t # "number" \/ ~value.finite THEN 0
    ELSE LET rounded == MathRound(value.n)
         IN  IF rounded > 0 THEN rounded ELSE 0

\* readConfig: whether an object was read (found), the object, and whether a
\* warning was logged
readConfig(f) ==
    IF f.kind = "absent" THEN [found |-> FALSE, rawConfig |-> f, warned |-> FALSE]
    ELSE IF f.kind # "object" THEN [found |-> FALSE, rawConfig |-> f, warned |-> TRUE]
    ELSE [found |-> TRUE, rawConfig |-> f, warned |-> FALSE]

\* rawConfig is what readConfig returned; without an object it is the base
mergeConfig(base, rawConfig) ==
    IF ~rawConfig.found THEN base
    ELSE LET dark == toNonEmptyString(rawConfig.rawConfig.darkTheme)
             light == toNonEmptyString(rawConfig.rawConfig.lightTheme)
             pollMsValue == toPositiveInteger(rawConfig.rawConfig.pollMs)
         IN  [darkTheme |-> IF dark # Undefined THEN dark ELSE base.darkTheme,
              lightTheme |-> IF light # Undefined THEN light ELSE base.lightTheme,
              pollMs |-> IF pollMsValue # 0 THEN Max(pollMsValue, MIN_POLL_MS)
                         ELSE base.pollMs]

\* loadConfig of this revision
loadConfigMerged(f) == mergeConfig(DEFAULT_CONFIG, readConfig(f))

\* detectAppearance of this revision: "dark", "light" or "unknown"
detectAppearanceDarwin(result) ==
    IF result.ok
    THEN LET normalized == ToLowerCase(Trim(result.stdout))
         IN  IF normalized = Dark THEN "dark"
             ELSE IF normalized = Light THEN "light"
             ELSE "unknown"
    ELSE IF Includes(ToLowerCase(extractStderr(result)), DoesNotExist) THEN "light"
    ELSE "unknown"

getRequestedTheme(config, appearance) ==
    IF appearance = "dark" THEN config.darkTheme ELSE config.lightTheme

getBuiltinFallbackTheme(appearance) == IF appearance = "dark" THEN Dark ELSE Light

MissingKey(requestedTheme, fallbackTheme) == requestedTheme \o <<"=", ">">> \o fallbackTheme

\* (faulty variant) the built-in theme is returned even when the host does
\* not know it
resolveThemeNameAlwaysFallback(known, requestedTheme, fallbackTheme, warnedMissingThemes) ==
    LET warningKey == MissingKey(requestedTheme, fallbackTheme)
    IN  IF requestedTheme \in known
        THEN [theme |-> requestedTheme, warned |-> warnedMissingThemes, warn |-> <<>>]
        ELSE [theme |-> fallbackTheme,
              warned |-> warnedMissingThemes \cup {warningKey},
              warn |-> IF warningKey \notin warnedMissingThemes
                       THEN <<<<"missing theme", warningKey>>>> ELSE <<>>]

\* the theme to apply, the set of warned keys afterwards and the warning logged
resolveThemeName(known, requestedTheme, fallbackTheme, warnedMissingThemes) ==
    LET warningKey == MissingKey(requestedTheme, fallbackTheme)
    IN  IF requestedTheme \in known
        THEN [theme |-> requestedTheme, warned |-> warnedMissingThemes, warn |-> <<>>]
        ELSE [theme |-> IF fallbackTheme \in known THEN fallbackTheme ELSE requestedTheme,
              warned |-> warnedMissingThemes \cup {warningKey},
              warn |-> IF warningKey \notin warnedMissingThemes
                       THEN <<<<"missing theme", warningKey>>>> ELSE <<>>]

\* the set of warned keys afterwards and the warning logged
warnSetThemeFailureOnce(warningKey, warnings, name) ==
    IF warningKey \in warnings THEN [warnings |-> warnings, warn |-> <<>>]
    ELSE [warnings |-> warnings \cup {warningKey},
          warn |-> <<<<"failed to set theme", name>>>>]

\* (faulty variant) a rejected theme is not followed by the built-in one
triesFallbackNever(targetTheme, fallbackTheme) == FALSE

\* whether a rejected theme is followed by an attempt with the built-in one
triesFallback(targetTheme, fallbackTheme) == targetTheme # fallbackTheme

\* syncTheme of this revision from the detected appearance to its return
syncThemeWithFallback(known, hostTheme, config, appearance, outcome, fallbackOutcome, lastApplied, missing, warnings) ==
    LET requestedTheme == getRequestedTheme(config, appearance)
        fallbackTheme == getBuiltinFallbackTheme(appearance)
        resolved == resolveThemeName(known, requestedTheme, fallbackTheme, missing)
        targetTheme == resolved.theme
        activeThemeName == IF hostTheme # Undefined THEN hostTheme ELSE lastApplied
        setResult == setThemeResult(targetTheme, known, outcome)
        fallbackResult == setThemeResult(fallbackTheme, known, fallbackOutcome)
        first == warnSetThemeFailureOnce(<<"set:">> \o targetTheme, warnings, targetTheme)
        second == warnSetThemeFailureOnce(<<"fallback:">> \o fallbackTheme, first.warnings,
                                          fallbackTheme)
        nothing == [setTheme |-> <<>>, themeName |-> hostTheme, lastApplied |-> lastApplied,
                    missing |-> missing, warnings |-> warnings, warn |-> <<>>,
                    threw |-> FALSE]
        resolvedOnly == [nothing EXCEPT !.missing = resolved.warned, !.warn = resolved.warn]
        tried == [resolvedOnly EXCEPT !.setTheme = <<targetTheme>>]
        rejected == [tried EXCEPT !.warnings = first.warnings,
                                  !.warn = resolved.warn \o first.warn]
        triedBoth == [rejected EXCEPT !.setTheme = <<targetTheme, fallbackTheme>>]
    IN  IF appearance = "unknown" THEN nothing
        ELSE IF activeThemeName = targetTheme
        THEN [resolvedOnly EXCEPT !.lastApplied = activeThemeName]
        ELSE IF setResult.threw THEN [tried EXCEPT !.threw = TRUE]
        ELSE IF setResult.success
        THEN [tried EXCEPT !.themeName = targetTheme, !.lastApplied = targetTheme]
        ELSE IF ~triesFallback(targetTheme, fallbackTheme) THEN rejected
        ELSE IF fallbackResult.threw THEN [triedBoth EXCEPT !.threw = TRUE]
        ELSE IF fallbackResult.success
        THEN [triedBoth EXCEPT !.themeName = fallbackTheme, !.lastApplied = fallbackTheme]
        ELSE [triedBoth EXCEPT !.warnings = second.warnings,
                               !.warn = resolved.warn \o first.warn \o second.warn]

\* restartPolling of this revision: the held timer is cleared and a new one
\* is created
restartPollingUngatedRevision(id, tms, config) ==
    LET cleared == IF id # 0 THEN {t \in tms : t.id # id} ELSE tms
        fresh == freshTimerId(cleared)
    IN  [intervalId |-> fresh,
         timers |-> cleared \cup {[id |-> fresh, ms |-> config.pollMs]},
         clearInterval |-> IF id # 0 THEN <<id>> ELSE <<>>,
         setInterval |-> <<config.pollMs>>]

\* what this revision never touches
unusedByFallback ==
    <<hostVars, lastSetThemeError, didWarnDefaultThemeFallback, customNotices, stopped,
      detectLog, configBeforeSave, warnedKeys, handled, typed>>

FallbackInit ==
    /\ platform = "darwin"
    /\ hasUI = TRUE
    /\ allThemes \in FallbackThemeSets
    /\ themeName \in allThemes \cup {Undefined}
    /\ osAppearance \in {"dark", "light"}
    /\ file \in FallbackFiles
    /\ activeConfig = DEFAULT_CONFIG
    /\ intervalId = 0
    /\ syncInProgress = FALSE
    /\ lastSetThemeError = Null
    /\ didWarnDefaultThemeFallback = FALSE
    /\ timers = {}
    /\ startPc = "idle"
    /\ cmdPc = "idle"
    /\ draft = DEFAULT_CONFIG
    /\ pass = [c \in Callers |-> "idle"]
    /\ customNotices = 0
    /\ stopped = FALSE
    /\ detectLog = <<>>
    /\ configBeforeSave = DEFAULT_CONFIG
    /\ warnedKeys = {}
    /\ lastAppliedThemeName = Undefined
    /\ missingThemeWarnings = {}
    /\ setThemeWarnings = {}
    /\ handled = <<>>
    /\ typed = <<>>
    /\ out = Quiet

\* syncTheme of this revision up to its await of detectAppearance
FallbackSyncCall(caller) ==
    IF syncInProgress
    THEN /\ UNCHANGED <<syncInProgress, pass>>
         /\ out' = Quiet
    ELSE /\ syncInProgress' = TRUE
         /\ pass' = [pass EXCEPT ![caller] = "detect"]
         /\ out' = [Quiet EXCEPT !.exec = <<"defaults AppleInterfaceStyle">>]

\* session_start arrives: the handler awaits loadConfig
FallbackSessionStart ==
    /\ NoMicrotask
    /\ startPc = "idle"
    /\ startPc' = "loading"
    /\ out' = Quiet
    /\ UNCHANGED <<themeName, osAppearance, file, activeConfig, intervalId, syncInProgress,
                   timers, cmdPc, draft, pass, legacyVars, unusedByFallback>>

\* loadConfig returns: the host's theme is remembered and syncTheme is called
FallbackSessionLoaded ==
    /\ NoMicrotask
    /\ startPc = "loading"
    /\ LET read == readConfig(file)
       IN  /\ activeConfig' = loadConfigMerged(file)
           /\ lastAppliedThemeName' = themeName
           /\ IF syncInProgress
              THEN /\ UNCHANGED <<syncInProgress, pass>>
                   /\ startPc' = "resume"
                   /\ out' = [Quiet EXCEPT
                                  !.warn = IF read.warned THEN <<"config ignored">> ELSE <<>>]
              ELSE /\ syncInProgress' = TRUE
                   /\ pass' = [pass EXCEPT !["start"] = "detect"]
                   /\ startPc' = "syncing"
                   /\ out' = [Quiet EXCEPT
                                  !.warn = IF read.warned THEN <<"config ignored">> ELSE <<>>,
                                  !.exec = <<"defaults AppleInterfaceStyle">>]
    /\ UNCHANGED <<themeName, osAppearance, file, intervalId, timers, cmdPc, draft,
                   missingThemeWarnings, setThemeWarnings, unusedByFallback>>

\* the handler resumes after `await syncTheme(ctx)`: restartPolling
FallbackSessionResume ==
    /\ startPc = "resume"
    /\ LET r == restartPollingUngatedRevision(intervalId, timers, activeConfig)
       IN  /\ intervalId' = r.intervalId
           /\ timers' = r.timers
           /\ out' = [Quiet EXCEPT
                          !.setInterval = r.setInterval, !.clearInterval = r.clearInterval]
    /\ startPc' = "idle"
    /\ UNCHANGED <<themeName, osAppearance, file, activeConfig, syncInProgress, cmdPc,
                   draft, pass, legacyVars, unusedByFallback>>

\* a polling timer fires: void syncTheme(ctx)
FallbackTick ==
    /\ NoMicrotask
    /\ timers # {}
    /\ FallbackSyncCall("tick")
    /\ UNCHANGED <<themeName, osAppearance, file, activeConfig, intervalId, timers,
                   startPc, cmdPc, draft, legacyVars, unusedByFallback>>

\* detectAppearance returns to a suspended pass, and the pass ends
FallbackDetectDone ==
    /\ NoMicrotask
    /\ \E caller \in Callers, result \in MacResults(osAppearance),
          outcome \in SetThemeOutcomes, fallbackOutcome \in SetThemeOutcomes :
        /\ pass[caller] = "detect"
        /\ \E a \in {detectAppearanceDarwin(result)} :
           \E r \in {syncThemeWithFallback(allThemes, themeName, activeConfig, a, outcome,
                                           fallbackOutcome, lastAppliedThemeName,
                                           missingThemeWarnings, setThemeWarnings)} :
            /\ pass' = [pass EXCEPT ![caller] = "idle"]
            /\ themeName' = r.themeName
            /\ lastAppliedThemeName' = r.lastApplied
            /\ missingThemeWarnings' = r.missing
            /\ setThemeWarnings' = r.warnings
            /\ syncInProgress' = FALSE
            /\ PassOver(caller, r.threw)
            /\ out' = [Quiet EXCEPT !.setTheme = r.setTheme, !.warn = r.warn,
                                     !.detected = a, !.threw = r.threw]
    /\ UNCHANGED <<osAppearance, file, activeConfig, intervalId, timers, unusedByFallback>>

FallbackNext ==
    \/ AppearanceChange
    \/ FallbackSessionStart
    \/ FallbackSessionLoaded
    \/ FallbackSessionResume
    \/ FallbackTick
    \/ FallbackDetectDone
    \/ SessionShutdown

FallbackSpec == FallbackInit /\ [][FallbackNext]_vars

\* ---------------------------------------------------------------- claims
\* the steps of the handlers, told from the positions they leave
SessionLoadedStep == startPc = "loading" /\ startPc' # "loading"
CommandSavedStep == cmdPc = "saving" /\ cmdPc' \in {"syncing", "resume"}
CommandResumeStep == cmdPc = "resume" /\ cmdPc' # "resume"
SessionResumeStep == startPc = "resume" /\ startPc' # "resume"
\* a sync pass returns in this step, having detected out'.detected
PassEndsStep == out'.detected # "none"

PassesInFlight == {c \in Callers : pass[c] # "idle"}

\* the gate is closed for no other reason than a custom host theme
ClosedByCustomTheme(config, name) ==
    canManageThemes(Ctx) /\ ~hasThemeOverrides(config) /\ ~isDefaultThemeName(name)

\* C1 (as claimed): every call of the host's setTheme is made while the
\* active configuration has a non-default darkTheme or lightTheme, or while
\* the host's active theme is "dark" or "light": a custom host theme is never
\* replaced under the default mapping.
C1_SetThemeOnlyWhenOptedIn ==
    [][out'.setTheme # <<>> =>
          (hasThemeOverrides(activeConfig) \/ isDefaultThemeName(themeName))]_vars

\* C2: when session_start has loaded a configuration with both theme names
\* default while the host's theme is custom, shouldAutoSync is false and the
\* handler returns having run no detection command, called no setTheme and
\* started no timer, however often session_start arrives.
C2_DefaultMappingKeepsCustomTheme ==
    [][(SessionLoadedStep /\ ClosedByCustomTheme(loadConfig(file).config, themeName)) =>
          /\ ~shouldAutoSync(Ctx, loadConfig(file).config)
          /\ startPc' = "idle"
          /\ out'.exec = <<>>
          /\ out'.setTheme = <<>>
          /\ out'.setInterval = <<>>
          /\ UNCHANGED <<pass, syncInProgress, timers, intervalId, themeName>>]_vars

\* C2 witness: a session_start is loading defaults under a custom theme after
\* an earlier one was already turned away for the same reason
C2_Witness ==
    /\ startPc = "loading"
    /\ ClosedByCustomTheme(loadConfig(file).config, themeName)
    /\ didWarnDefaultThemeFallback
    /\ activeConfig = DEFAULT_CONFIG
    /\ timers = {}

\* C3: the "current theme is custom" notification is shown exactly once per
\* extension instance: the first session_start or save that finds the gate
\* closed by a custom theme shows it, and no later step shows it again.
C3_CustomNoticeOnce ==
    [][/\ customNotices' <= 1
       /\ (CustomNotice \in {out'.notify[i] : i \in 1..Len(out'.notify)})
              <=> (customNotices' = customNotices + 1)
       /\ didWarnDefaultThemeFallback => customNotices' = customNotices
       /\ (/\ SessionLoadedStep
           /\ ClosedByCustomTheme(loadConfig(file).config, themeName)
           /\ ~didWarnDefaultThemeFallback) => out'.notify = <<CustomNotice>>
       /\ (/\ CommandResumeStep
           /\ ClosedByCustomTheme(activeConfig, themeName)
           /\ ~didWarnDefaultThemeFallback) => out'.notify = <<CustomNotice>>]_vars

\* C3 witness: the notification has been shown and another session_start is
\* about to find the gate closed by a custom theme
C3_Witness ==
    /\ customNotices = 1
    /\ startPc = "loading"
    /\ ClosedByCustomTheme(loadConfig(file).config, themeName)

\* C4 (as claimed): with a non-default darkTheme or lightTheme and a host
\* that has UI and themes, session_start starts a pass, and a pass that
\* detected dark while the host's theme is custom calls setTheme(darkTheme),
\* one that detected light calls setTheme(lightTheme), with no notification.
C4_OverridesAlwaysApply ==
    [][/\ (/\ SessionLoadedStep
           /\ hasThemeOverrides(activeConfig')
           /\ canManageThemes(Ctx)
           /\ ~syncInProgress)
          => (startPc' = "syncing" /\ out'.exec = firstCommand(platform)
              /\ out'.notify = <<>>)
       /\ (/\ PassEndsStep
           /\ out'.detected # "null"
           /\ hasThemeOverrides(activeConfig)
           /\ ~isDefaultThemeName(themeName))
          => (out'.setTheme = <<IF out'.detected = "dark" THEN activeConfig.darkTheme
                                 ELSE activeConfig.lightTheme>>
              /\ out'.notify = <<>>)]_vars

\* C4 (amended): as C4, but the pass calls setTheme with the configured theme
\* only when the host's active theme differs from it; when the host's theme
\* already is that theme the pass makes no call.
C4_OverridesApplyUnlessActive ==
    [][/\ (/\ SessionLoadedStep
           /\ hasThemeOverrides(activeConfig')
           /\ canManageThemes(Ctx)
           /\ ~syncInProgress)
          => (startPc' = "syncing" /\ out'.exec = firstCommand(platform)
              /\ out'.notify = <<>>)
       /\ (/\ PassEndsStep
           /\ out'.detected # "null"
           /\ hasThemeOverrides(activeConfig))
          => LET configured == IF out'.detected = "dark" THEN activeConfig.darkTheme
                                ELSE activeConfig.lightTheme
             IN  /\ out'.setTheme = IF themeName = configured THEN <<>> ELSE <<configured>>
                 /\ out'.notify = <<>>]_vars

\* C4 witness: with lightTheme overridden, a pass that detected dark has
\* called setTheme("dark") on a host whose theme is custom (and still is,
\* the host having rejected the call)
C4_Witness ==
    /\ out.detected = "dark"
    /\ out.setTheme = <<Dark>>
    /\ activeConfig.darkTheme = Dark
    /\ activeConfig.lightTheme = Rose
    /\ themeName = Rose

\* C5: a pass that finds the host's theme equal to the target of the detected
\* appearance makes no setTheme call, and a successful apply leaves the
\* host's theme equal to that target: passes that follow under the same
\* appearance and configuration call nothing.
C5_SyncIdempotent ==
    [][PassEndsStep /\ out'.detected # "null" =>
          LET target == targetThemeOf(activeConfig, out'.detected)
          IN  /\ themeName = target => (out'.setTheme = <<>> /\ themeName' = themeName)
              /\ (out'.setTheme # <<>> /\ ~out'.threw /\ lastSetThemeError' = Null)
                     => themeName' = target
              /\ Len(out'.setTheme) <= 1]_vars

\* C5 witness: a pass detected dark while the host's theme was the configured
\* dark theme, a custom one, and returned without a call
C5_Witness ==
    /\ out.detected = "dark"
    /\ out.setTheme = <<>>
    /\ themeName = activeConfig.darkTheme
    /\ themeName = Rose

\* C6: a pass whose detection is undetermined calls no setTheme and leaves
\* the host's theme, the active configuration, the file, the timer and the
\* warning state as they were; the in-flight flag is reset.
C6_UndeterminedChangesNothing ==
    [][PassEndsStep /\ out'.detected = "null" =>
          /\ out'.setTheme = <<>>
          /\ out'.warn = <<>>
          /\ out'.notify = <<>>
          /\ syncInProgress' = FALSE
          /\ UNCHANGED <<themeName, activeConfig, file, intervalId, timers,
                         lastSetThemeError, didWarnDefaultThemeFallback>>]_vars

\* C6 witness: a pass has ended undetermined while a timer was running and a
\* set-theme failure was on record
C6_Witness ==
    /\ out.detected = "null"
    /\ timers # {}
    /\ lastSetThemeError # Null
    /\ ~syncInProgress

\* C7: at most one pass is in flight, the flag is set exactly while one is,
\* and a syncTheme call that arrives meanwhile (from a tick, session_start or
\* a save) starts nothing: no command, no setTheme, no pass of its own.
C7_SinglePassInFlight ==
    /\ [](Cardinality(PassesInFlight) <= 1 /\ (syncInProgress <=> PassesInFlight # {}))
    /\ [][syncInProgress =>
             /\ \A c \in Callers : pass[c] = "idle" => pass'[c] = "idle"
             /\ out'.exec # <<>> =>
                    \E c \in Callers : pass[c] = "detect" /\ pass'[c] = "detect2"
             /\ out'.setTheme # <<>> =>
                    \E c \in Callers : pass[c] # "idle" /\ pass'[c] = "idle"
             /\ SessionLoadedStep =>
                    (startPc' \in {"idle", "resume"} /\ out'.exec = <<>>
                     /\ out'.setTheme = <<>>)
             /\ CommandSavedStep =>
                    (cmdPc' = "resume" /\ out'.exec = <<>> /\ out'.setTheme = <<>>)]_vars

\* C7 witness: session_start's call was dropped while the pass of a tick was
\* awaiting detection
C7_Witness ==
    /\ startPc = "resume"
    /\ pass["tick"] # "idle"
    /\ pass["start"] = "idle"
    /\ syncInProgress

\* C8: whenever no pass is executing the in-flight flag is false, whichever
\* way the last pass ended.
C8_FlagClearedOnEveryExit ==
    (PassesInFlight = {} => ~syncInProgress)
    /\ (out.detected # "none" => ~syncInProgress)

\* C8 witness: a pass has ended by an exception of setTheme
C8_Witness ==
    /\ out.threw
    /\ out.setTheme # <<>>
    /\ PassesInFlight = {}

\* C9: at most one timer is live, it is the one intervalId holds, and a step
\* that creates a timer has cancelled the one held before.
C9_AtMostOneTimer ==
    /\ [](/\ Cardinality(timers) <= 1
          /\ \A t \in timers : t.id = intervalId
          /\ (intervalId # 0 => \E t \in timers : t.id = intervalId))
    /\ [][out'.setInterval # <<>> =>
             /\ intervalId # 0 => out'.clearInterval = <<intervalId>>
             /\ Len(out'.setInterval) = 1
             /\ Cardinality(timers') = 1]_vars

\* C9 witness: restartPolling has replaced a live timer by a new one
C9_Witness ==
    /\ out.setInterval # <<>>
    /\ out.clearInterval # <<>>
    /\ Cardinality(timers) = 1

\* C10: restartPolling cancels the timer held and, only if shouldAutoSync
\* holds of the current configuration and host theme, starts one with period
\* activeConfig.pollMs; with the gate closed no timer is live afterwards.
C10_RestartFollowsGate ==
    [][(SessionResumeStep \/ CommandResumeStep) =>
          /\ intervalId # 0 => out'.clearInterval = <<intervalId>>
          /\ IF shouldAutoSync(Ctx, activeConfig)
             THEN /\ out'.setInterval = <<activeConfig.pollMs>>
                  /\ intervalId' # 0
                  /\ timers' = {[id |-> intervalId', ms |-> activeConfig.pollMs]}
             ELSE /\ out'.setInterval = <<>>
                  /\ intervalId' = 0
                  /\ timers' = {}]_vars

\* C10 witness: after a save the gate is closed by a custom theme and the
\* timer that was running is gone
C10_Witness ==
    /\ out.notify = <<CustomNotice>>
    /\ out.clearInterval # <<>>
    /\ out.setInterval = <<>>
    /\ timers = {}
    /\ ~shouldAutoSync(Ctx, activeConfig)

\* C11 (as claimed): once session_shutdown has returned no timer is live, and
\* no tick starts a pass, until a session_start or a save that arrives later
\* restarts polling.
C11_ShutdownStopsPolling ==
    /\ [](stopped => timers = {})
    /\ [][stopped /\ stopped' => ~(pass["tick"] = "idle" /\ pass'["tick"] # "idle")]_vars

\* C12: the active configuration always has a whole pollMs of at least
\* MIN_POLL_MS, whatever the override file holds and whatever is typed into
\* the menu.
C12_PollMsAtLeastMinimum ==
    /\ activeConfig.pollMs \in Nat
    /\ activeConfig.pollMs >= MIN_POLL_MS

\* C12 witness: a file whose pollMs is 0 has been loaded and the active
\* interval is the minimum
C12_Witness ==
    /\ file.kind = "object"
    /\ file.pollMs = JNum(0)
    /\ activeConfig.pollMs = MIN_POLL_MS

\* the step of ConfigSpec that saves
StoreSaveStep == cmdPc = "select" /\ cmdPc' = "idle" /\ out'.notify # <<>>

\* the fields of a configuration that differ from the defaults
DifferingFields(config) ==
    {k \in {"darkTheme", "lightTheme", "pollMs"} : config[k] # DEFAULT_CONFIG[k]}

\* C13: a save persists only the fields that differ from the defaults: with
\* none the file is removed and the result is wroteFile = false with
\* overrideCount 0; otherwise the file holds exactly the differing fields and
\* the result is wroteFile = true with overrideCount their number.
C13_SaveWritesOnlyOverrides ==
    [][StoreSaveStep =>
          LET differing == DifferingFields(draft)
              n == Cardinality(differing)
          IN  IF n = 0
              THEN /\ file' = FileAbsent
                   /\ out'.notify = <<<<"info", "no overrides left">>>>
              ELSE /\ file'.kind = "object"
                   /\ file'.darkTheme = IF "darkTheme" \in differing
                                        THEN JStr(draft.darkTheme) ELSE JUndef
                   /\ file'.lightTheme = IF "lightTheme" \in differing
                                         THEN JStr(draft.lightTheme) ELSE JUndef
                   /\ file'.pollMs = IF "pollMs" \in differing
                                     THEN JNum(10 * draft.pollMs) ELSE JUndef
                   /\ out'.notify = <<<<"info", "saved overrides", n>>>>]_vars

\* C13 witness: a configuration that differs in pollMs alone has been saved
C13_Witness ==
    /\ file = FileObject(JUndef, JUndef, JNum(6000))
    /\ activeConfig = [DEFAULT_CONFIG EXCEPT !.pollMs = 600]
    /\ out.notify = <<<<"info", "saved overrides", 1>>>>

\* a pass ends in this step with a setTheme call the host rejected
SetThemeRejectedStep ==
    /\ PassEndsStep
    /\ out'.setTheme # <<>>
    /\ ~out'.threw
    /\ lastSetThemeError' # Null

\* C14: a rejected setTheme call logs a warning when its target and message
\* differ from those of the failure on record, and logs nothing when they are
\* the same: of a run of identical failures over consecutive passes only the
\* first is logged.
C14_RepeatedFailureWarnsOnce ==
    [][SetThemeRejectedStep =>
          /\ \E message \in {HostError, NotFoundError, UnknownError} :
                 lastSetThemeError' = out'.setTheme[1] \o <<":">> \o message
          /\ lastSetThemeError' = lastSetThemeError => out'.warn = <<>>
          /\ lastSetThemeError' # lastSetThemeError => Len(out'.warn) = 1]_vars

\* C14 witness: with a timer running, a pass has met the failure on record
\* again and logged nothing
C14_Witness ==
    /\ out.detected # "none"
    /\ out.setTheme # <<>>
    /\ ~out.threw
    /\ lastSetThemeError # Null
    /\ out.warn = <<>>
    /\ timers # {}

\* C15: on macOS, stdout that is "dark" once trimmed, lower-cased and
\* stripped of surrounding quotes gives dark, one that is "light" gives light,
\* a failure whose stderr says "does not exist" gives light, and every other
\* stdout or failure gives undetermined, upon which the theme stays as it is.
C15_MacDetectionMapping ==
    [][(platform = "darwin" /\ PassEndsStep) =>
          LET result == detectLog'[1]
              text == normalizeSettingValue(result.stdout)
              stderr == IF result.stderr = Undefined THEN <<>> ELSE result.stderr
              mapped == IF result.ok
                        THEN (IF text = Dark THEN "dark"
                              ELSE IF text = Light THEN "light" ELSE "null")
                        ELSE (IF Includes(ToLowerCase(stderr), DoesNotExist)
                              THEN "light" ELSE "null")
          IN  /\ Len(detectLog') = 1
              /\ out'.detected = mapped
              /\ mapped = "null" => (out'.setTheme = <<>> /\ themeName' = themeName)]_vars

\* C15 witness: the command failed saying the key does not exist, and the
\* pass has set the light theme
C15_Witness ==
    /\ platform = "darwin"
    /\ detectLog = <<Failed(StderrMacNoKey)>>
    /\ out.detected = "light"
    /\ out.setTheme = <<Light>>
    /\ themeName = Light

\* what a gsettings query yields once normalized (trimmed, lower-cased,
\* stripped of surrounding quotes); a failed query yields no text
SettingText(result) ==
    IF result.ok THEN normalizeSettingValue(result.stdout) ELSE Null

\* C16: on Linux a pass asks for color-scheme first; 'prefer-dark' gives dark
\* and 'prefer-light' gives light with that one command; only when
\* color-scheme says neither, or its query fails, is gtk-theme asked second,
\* giving dark if the value contains "dark", light if it contains "light",
\* undetermined otherwise.
C16_LinuxDetectionOrder ==
    [][platform = "linux" =>
        /\ (pass["start"] = "idle" /\ pass'["start"] # "idle") =>
              /\ pass'["start"] = "detect"
              /\ out'.exec = <<"gsettings color-scheme">>
        /\ pass["start"] = "detect" =>
              LET scheme == SettingText(detectLog'[1])
              IN  /\ Len(detectLog') = 1
                  /\ scheme = PreferDark =>
                        out'.detected = "dark" /\ out'.exec = <<>> /\ pass'["start"] = "idle"
                  /\ scheme = PreferLight =>
                        out'.detected = "light" /\ out'.exec = <<>> /\ pass'["start"] = "idle"
                  /\ scheme \notin {PreferDark, PreferLight} =>
                        /\ out'.detected = "none"
                        /\ out'.exec = <<"gsettings gtk-theme">>
                        /\ pass'["start"] = "detect2"
        /\ pass["start"] = "detect2" =>
              LET theme == SettingText(detectLog'[2])
              IN  /\ Len(detectLog') = 2
                  /\ detectLog'[1] = detectLog[1]
                  /\ out'.exec = <<>>
                  /\ pass'["start"] = "idle"
                  /\ out'.detected =
                        (IF theme = Null THEN "null"
                         ELSE IF Includes(theme, Dark) THEN "dark"
                         ELSE IF Includes(theme, Light) THEN "light"
                         ELSE "null")]_vars

\* C16 witness: color-scheme answered 'default', gtk-theme answered a name
\* with "dark" in it, and the pass has set the dark theme
C16_Witness ==
    /\ platform = "linux"
    /\ detectLog = <<Ok(StdoutSchemeDefault), Ok(StdoutGtkDark)>>
    /\ out.detected = "dark"
    /\ out.setTheme = <<Dark>>
    /\ themeName = Dark

C18_IdleWithoutUI ==
    [][(~hasUI \/ allThemes = {}) =>
          /\ out'.exec = <<>>
          /\ out'.setTheme = <<>>
          /\ out'.setInterval = <<>>
          /\ timers' = {}
          /\ intervalId' = 0
          /\ \A c \in Callers : pass'[c] = "idle"
          /\ startPc' # startPc => out'.notify = <<>>]_vars

\* C18 witness: without a UI, session_start has loaded the override file
\* and returned
C18_Witness ==
    /\ ~hasUI
    /\ platform = "darwin"
    /\ activeConfig # DEFAULT_CONFIG
    /\ startPc = "idle"
    /\ timers = {}
    /\ out.exec = <<>>
    /\ out.notify = <<>>

\* a step of the settings menu other than Save: an edit of the draft, a
\* rejected answer, Cancel or a dismissal
MenuStepWithoutSave ==
    /\ cmdPc \in {"select", "inputPoll"}
    /\ cmdPc' # "saving"
    /\ (cmdPc' # cmdPc \/ draft' # draft)

\* C19: the edits of the draft and the Cancel (or dismissal) that ends the
\* menu leave the active configuration, the override file, the polling timer
\* and the host's theme as they were: no command runs, no setTheme call is
\* made, and no timer is created or cleared.
C19_CancelChangesNothing ==
    [][MenuStepWithoutSave =>
          /\ UNCHANGED <<activeConfig, file, timers, intervalId, themeName>>
          /\ out'.setTheme = <<>>
          /\ out'.exec = <<>>
          /\ out'.setInterval = <<>>
          /\ out'.clearInterval = <<>>]_vars

\* C19 witness: the menu is open over a running timer and a stored override
\* file, with the draft's dark theme and interval edited, and the user is
\* about to leave it
C19_Witness ==
    /\ cmdPc = "select"
    /\ startPc = "idle"
    /\ timers # {}
    /\ file.kind = "object"
    /\ draft.darkTheme # activeConfig.darkTheme
    /\ draft.pollMs # activeConfig.pollMs

\* the step in which "Save and apply" is chosen
CommandSaveStep == cmdPc = "select" /\ cmdPc' = "saving"

\* C20: a Save whose handler runs to its end commits the draft as the active
\* configuration first; then persists it and reports the number of overrides
\* (or that none is left) and calls syncTheme, once, before any timer is
\* touched; and restarts polling last, after the pass is over, so that the
\* timer, if there is one, runs at the saved interval.
C20_SaveOrder ==
    [][/\ CommandSaveStep =>
            /\ activeConfig' = draft
            /\ UNCHANGED <<file, timers, intervalId, pass>>
            /\ out' = Quiet
       /\ CommandSavedStep =>
            /\ activeConfig = draft
            /\ activeConfig' = draft
            /\ file' = saveConfig(draft).file
            /\ Len(out'.notify) = 1
            /\ out'.notify[1] \in
                  {<<"info", "saved overrides", n>> : n \in 1..3} \cup
                  {<<"info", "no overrides left">>}
            /\ IF shouldAutoSync(Ctx, draft) /\ ~syncInProgress
               THEN pass'["cmd"] = "detect" /\ Len(out'.exec) = 1 /\ cmdPc' = "syncing"
               ELSE pass'["cmd"] = "idle" /\ out'.exec = <<>> /\ cmdPc' = "resume"
            /\ UNCHANGED <<timers, intervalId>>
            /\ out'.setInterval = <<>>
            /\ out'.clearInterval = <<>>
       /\ (pass["cmd"] = "idle" /\ pass'["cmd"] # "idle") => CommandSavedStep
       /\ CommandResumeStep =>
            /\ pass["cmd"] = "idle"
            /\ activeConfig = draft
            /\ UNCHANGED <<activeConfig, file, themeName>>
            /\ out'.clearInterval = (IF intervalId # 0 THEN <<intervalId>> ELSE <<>>)
            /\ out'.setInterval = (IF timers' = {} THEN <<>> ELSE <<draft.pollMs>>)
            /\ \A t \in timers' : t.ms = draft.pollMs /\ t.id = intervalId'
            /\ cmdPc' = "idle"]_vars

\* C20 witness: a save has committed and persisted an interval other than the
\* running timer's, its pass has just ended, and restartPolling comes next
C20_Witness ==
    /\ cmdPc = "resume"
    /\ activeConfig = draft
    /\ file.kind = "object"
    /\ out.detected # "none"
    /\ \E t \in timers : t.id = intervalId /\ t.ms # draft.pollMs

\* the step in which saveConfig fails and the handler returns
CommandSaveFailedStep == cmdPc = "saving" /\ cmdPc' = "idle"

\* C21: when saveConfig fails during Save the user is shown an error, no sync
\* pass starts and polling is not restarted, and the active configuration
\* is the one in force before Save was chosen, as are the timer and the
\* host's theme.
C21_FailedSaveLeavesStateIntact ==
    [][CommandSaveFailedStep =>
          /\ Len(out'.notify) = 1
          /\ out'.notify[1][1] = "error"
          /\ out'.exec = <<>>
          /\ out'.setTheme = <<>>
          /\ out'.setInterval = <<>>
          /\ out'.clearInterval = <<>>
          /\ UNCHANGED <<timers, intervalId, themeName, pass, file>>
          /\ activeConfig' = configBeforeSave]_vars

\* C22: a sync pass, whoever called it, ends normally for every result of
\* the detection commands and for a success or a failure result of setTheme:
\* the flag is reset and the handler that awaited the pass goes on.  A pass
\* ends by an exception only when the host's setTheme call itself raised one.
C22_PassCompletesNormally ==
    [][PassEndsStep =>
          \E c \in Callers :
              /\ pass[c] # "idle"
              /\ pass'[c] = "idle"
              /\ out'.detected \in {"dark", "light", "null"}
              /\ out'.threw =>
                    /\ out'.setTheme # <<>>
                    /\ themeName' = themeName
                    /\ lastSetThemeError' = lastSetThemeError
                    /\ out'.warn = <<>>
              /\ ~out'.threw =>
                    /\ syncInProgress' = FALSE
                    /\ c = "start" => startPc' = "resume"
                    /\ c = "cmd" => cmdPc' = "resume"
                    /\ c # "start" => startPc' = startPc
                    /\ c # "cmd" => cmdPc' = cmdPc]_vars

\* C22 witness: the pass of a save has ended with setTheme rejecting the
\* theme, a warning was logged, and the save handler goes on
C22_Witness ==
    /\ cmdPc = "resume"
    /\ out.detected # "none"
    /\ out.setTheme # <<>>
    /\ out.warn # <<>>
    /\ lastSetThemeError # Null
    /\ ~out.threw
    /\ ~syncInProgress

\* the step in which loadConfig returns to the config store
StoreLoadStep == startPc = "loading" /\ startPc' = "idle"

\* C23: loading an absent override file gives exactly the defaults and logs
\* nothing; loading a file that cannot be read, is not JSON or is not a JSON
\* object gives exactly the defaults and logs one warning; either way the
\* load returns.
C23_LoadFallsBackToDefaults ==
    [][StoreLoadStep =>
          /\ file.kind = "absent" =>
                activeConfig' = DEFAULT_CONFIG /\ out'.warn = <<>>
          /\ file.kind \in {"unreadable", "notjson", "array"} =>
                activeConfig' = DEFAULT_CONFIG /\ Len(out'.warn) = 1
          /\ ~out'.threw
          /\ UNCHANGED file]_vars

\* C23 witness: a file that is not JSON was loaded, with a warning
C23_Witness ==
    /\ file.kind = "notjson"
    /\ activeConfig = DEFAULT_CONFIG
    /\ Len(out.warn) = 1

\* what load() is to make of a theme name in the file
MergedTheme(value, default) ==
    IF value.t = "string" /\ Trim(value.s) # <<>> THEN Trim(value.s) ELSE default

\* C24: loading a JSON object takes each field on its own: a theme name from
\* the file when it is a string that is not blank, trimmed, and the default
\* otherwise; the interval from the file when it is a finite number, rounded
\* to the nearest integer (halves upwards) and raised to MIN_POLL_MS, and
\* the default otherwise; nothing is logged.
C24_LoadMergesFieldByField ==
    [][(StoreLoadStep /\ file.kind = "object") =>
          /\ activeConfig'.darkTheme = MergedTheme(file.darkTheme, DEFAULT_CONFIG.darkTheme)
          /\ activeConfig'.lightTheme = MergedTheme(file.lightTheme, DEFAULT_CONFIG.lightTheme)
          /\ LET value == file.pollMs
                 ms == activeConfig'.pollMs
             IN  IF value.t = "number" /\ value.finite
                 THEN /\ ms \in Nat
                      /\ ms >= MIN_POLL_MS
                      /\ IF value.n < 10 * MIN_POLL_MS - 5
                         THEN ms = MIN_POLL_MS
                         ELSE 10 * ms - 5 <= value.n /\ value.n < 10 * ms + 5
                 ELSE ms = DEFAULT_CONFIG.pollMs
          /\ out'.warn = <<>>]_vars

\* C24 witness: a file with a blank dark theme, a light theme in need of
\* trimming and an interval of 600.5 was loaded
C24_Witness ==
    /\ file = FileObject(JStr(<<" ">>), JStr(<<" ", "r", "o", "s", "e", "\n">>), JNum(6005))
    /\ activeConfig = [darkTheme |-> Dark, lightTheme |-> Rose, pollMs |-> 601]
    /\ out.warn = <<>>

\* C25: between two successes of setTheme, a failure is logged exactly once
\* for each distinct pair of theme and error message: the first failure with
\* a pair is logged, and a later one with the same pair is not, whatever
\* other pairs failed in between.
C25_WarnsOncePerPair ==
    [][SetThemeRejectedStep =>
          (out'.warn # <<>>) = (lastSetThemeError' \notin warnedKeys)]_vars


C28_DetectionNeverThrows ==
    [][/\ PassEndsStep =>
            /\ out'.detected \in {"dark", "light", "null"}
            /\ out'.detected = "null" =>
                  /\ ~out'.threw
                  /\ out'.setTheme = <<>>
                  /\ themeName' = themeName
                  /\ ~syncInProgress'
       /\ (pass["start"] \in {"detect", "detect2"} /\ detectLog' # detectLog) =>
            LET result == detectLog'[Len(detectLog')]
                stderr == IF result.stderr = Undefined THEN <<>> ELSE result.stderr
            IN  /\ (platform = "darwin" /\ ~result.ok) =>
                      out'.detected = (IF Includes(ToLowerCase(stderr), DoesNotExist)
                                       THEN "light" ELSE "null")
                /\ (platform = "darwin" /\ result.ok
                        /\ normalizeSettingValue(result.stdout) \notin {Dark, Light}) =>
                      out'.detected = "null"
                /\ (platform = "linux" /\ pass["start"] = "detect" /\ ~result.ok) =>
                      /\ out'.detected = "none"
                      /\ pass'["start"] = "detect2"
                      /\ out'.exec = <<"gsettings gtk-theme">>
                /\ (platform = "linux" /\ pass["start"] = "detect2" /\ ~result.ok) =>
                      out'.detected = "null"
                /\ (platform = "linux" /\ pass["start"] = "detect2" /\ result.ok
                        /\ ~Includes(normalizeSettingValue(result.stdout), Dark)
                        /\ ~Includes(normalizeSettingValue(result.stdout), Light)) =>
                      out'.detected = "null"
    ]_vars

\* both gsettings queries failed, one without stderr and one with, and the
\* pass ended undetermined, without a throw, and the handler went on
C28_Witness ==
    /\ platform = "linux"
    /\ detectLog = <<Failed(Undefined), Failed(StderrOther)>>
    /\ out.detected = "null"
    /\ ~out.threw
    /\ out.setTheme = <<>>
    /\ startPc = "resume"


\* C29: on a platform without a detection backend detectAppearance returns
\* undetermined without running a command, and a session_start ends at once:
\* no configuration is loaded, no pass starts, no timer is created and
\* nothing is notified or logged; no later step runs a command either.
C29_UnsupportedPlatformStaysIdle ==
    [][platform \notin {"darwin", "linux"} =>
        /\ (Len(handled') > Len(handled) /\ handled'[Len(handled')] = "detect") =>
              /\ out'.detected = "null"
              /\ out'.exec = <<>>
        /\ (Len(handled') > Len(handled) /\ handled'[Len(handled')] = "session_start") =>
              /\ out' = Quiet
              /\ startPc' = "idle"
              /\ pass' = [c \in Callers |-> "idle"]
              /\ ~syncInProgress'
              /\ timers' = {}
              /\ intervalId' = 0
              /\ activeConfig' = activeConfig
              /\ themeName' = themeName
              /\ didWarnDefaultThemeFallback' = didWarnDefaultThemeFallback
        /\ out'.exec = <<>>
        /\ out'.setInterval = <<>>
        /\ out'.setTheme = <<>>
    ]_vars

\* on Windows a session_start arrived twice, around a direct call of
\* detection, and nothing runs
C29_Witness ==
    /\ platform = "win32"
    /\ handled = <<"session_start", "detect", "session_start">>
    /\ startPc = "idle"
    /\ timers = {}
    /\ out = Quiet


\* C30: the command, invoked on a platform without a detection backend or on
\* a host without interactive theme support, shows one info notification when
\* there is a UI and does nothing else: no prompt opens, and the active
\* configuration, the override file, the timer and the host's theme stay as
\* they are.
C30_CommandRefusedLeavesStateIntact ==
    [][(/\ Len(handled') > Len(handled)
        /\ handled'[Len(handled')] = "command"
        /\ (platform \notin {"darwin", "linux"} \/ ~hasUI \/ allThemes = {})) =>
        /\ out' = [Quiet EXCEPT
                       !.notify =
                           IF ~hasUI THEN <<>>
                           ELSE IF platform \notin {"darwin", "linux"}
                           THEN <<<<"info", "unsupported platform">>>>
                           ELSE <<<<"info", "needs theme support">>>>]
        /\ cmdPc' = "idle"
        /\ draft' = draft
        /\ activeConfig' = activeConfig
        /\ file' = file
        /\ timers' = timers
        /\ intervalId' = intervalId
        /\ themeName' = themeName
        /\ pass' = pass
        /\ syncInProgress' = syncInProgress
    ]_vars

\* on Linux, on a host with a UI but no themes, the command was the last
\* event and left an info notification and no open menu
C30_Witness ==
    /\ platform = "linux"
    /\ hasUI
    /\ allThemes = {}
    /\ handled = <<"session_start", "command">>
    /\ out.notify = <<<<"info", "needs theme support">>>>
    /\ cmdPc = "idle"
    /\ activeConfig = DEFAULT_CONFIG


\* the text is a whole number in decimal notation: an optional sign and digits
IsWholeNumberText(t) ==
    LET body == IF t # <<>> /\ Head(t) \in {"-", "+"} THEN Tail(t) ELSE t
    IN  /\ body # <<>>
        /\ \A i \in 1..Len(body) : IsDigit(body[i])

\* a field prompt was answered in this step
PromptAnsweredStep ==
    /\ cmdPc \in {"select", "inputPoll"}
    /\ cmdPc' \in {"select", "inputPoll"}

\* C31: a blank or whitespace-only answer to a field prompt, and a dismissed
\* prompt, leave the draft as it is; a theme answer is taken trimmed; the
\* interval prompt takes an answer only if it is a whole number of at least
\* MIN_POLL_MS, and for any other answer it warns and asks again without
\* changing the draft.
C31_PromptsKeepOrValidate ==
    [][(typed' # <<>> /\ PromptAnsweredStep) =>
        LET field == typed'[1]
            text == typed'[2]
            trimmed == IF text = Undefined THEN <<>> ELSE Trim(text)
        IN  /\ \A k \in {"darkTheme", "lightTheme", "pollMs"} \ {field} : draft'[k] = draft[k]
            /\ (text = Undefined \/ trimmed = <<>>) =>
                  /\ draft' = draft
                  /\ cmdPc' = "select"
                  /\ out' = Quiet
            /\ (field # "pollMs" /\ trimmed # <<>>) =>
                  /\ draft'[field] = trimmed
                  /\ cmdPc' = "select"
                  /\ out' = Quiet
            /\ (field = "pollMs" /\ trimmed # <<>>) =>
                  IF IsWholeNumberText(trimmed) /\ ParseInt(trimmed).n >= MIN_POLL_MS
                  THEN /\ draft'.pollMs = ParseInt(trimmed).n
                       /\ cmdPc' = "select"
                       /\ out' = Quiet
                  ELSE /\ draft' = draft
                       /\ cmdPc' = "inputPoll"
                       /\ out'.notify = <<<<"warning", "enter a whole number">>>>
    ]_vars


\* a session_start arrived and no session_shutdown since
SessionStarted ==
    /\ \E i \in 1..Len(handled) : handled[i] = "session_start"
    /\ ~stopped

\* no handler and no pass is suspended at an await
NothingMidFlight ==
    /\ startPc = "idle"
    /\ cmdPc = "idle"
    /\ \A c \in Callers : pass[c] = "idle"

\* C32: the polling timer tracks sync eligibility, also when eligibility
\* changes because the host's theme switches between a default and a custom
\* name: in a started session on a supported platform, with no handler
\* mid-flight, a timer is active whenever shouldAutoSync holds.
C32_TimerTracksEligibility ==
    (/\ platform \in {"darwin", "linux"}
     /\ SessionStarted
     /\ NothingMidFlight
     /\ shouldAutoSync(Ctx, activeConfig)) => (timers # {} /\ intervalId # 0)


\* C33 (as claimed): in a started session whose gate is open, with the
\* system's appearance fixed, detection succeeding and the host accepting,
\* fair poll ticks bring the host's theme to the configured theme of that
\* appearance, and it stays there; the same after a save whose immediate sync
\* was dropped.
C33_ThemeConverges ==
    <>[]((SessionStarted /\ shouldAutoSync(Ctx, activeConfig)) =>
            themeName = (IF osAppearance = "dark" THEN activeConfig.darkTheme
                         ELSE activeConfig.lightTheme))

\* a session_start or save handler that was suspended at an await returns
HandlerResumes ==
    \/ startPc # "idle" /\ startPc' = "idle"
    \/ cmdPc \in {"saving", "resume"} /\ cmdPc' = "idle"

\* C34 (as claimed): no polling timer outlives shutdown: when
\* session_shutdown ran while a session_start or a menu save was suspended at
\* an await, the handler, once resumed, returns without leaving a timer
\* active.
C34_ResumedHandlerLeavesNoTimer ==
    [][(stopped /\ HandlerResumes) => (timers' = {} /\ intervalId' = 0)]_vars

\* what the menu can hold: theme names that are trimmed and not empty, and a
\* whole pollMs of at least MIN_POLL_MS
MenuConfig(config) ==
    /\ Trim(config.darkTheme) = config.darkTheme /\ Len(config.darkTheme) > 0
    /\ Trim(config.lightTheme) = config.lightTheme /\ Len(config.lightTheme) > 0
    /\ config.pollMs \in Nat /\ config.pollMs >= MIN_POLL_MS

\* C35: save and load round-trip: every configuration the menu saves is one
\* with trimmed, non-empty theme names and a whole pollMs of at least
\* MIN_POLL_MS, and loading the file the save left behind gives that
\* configuration back, also when the save removed the file because the
\* configuration equals the defaults.  The same holds for the loadConfig of
\* src/index.ts (mergeConfig over readConfig).
C35_SaveLoadRoundTrip ==
    [][StoreSaveStep =>
          /\ MenuConfig(draft)
          /\ loadConfig(file').config = draft
          /\ ~loadConfig(file').warned
          /\ loadConfigMerged(file') = draft
          /\ (draft = DEFAULT_CONFIG => file' = FileAbsent)]_vars

\* C35 witness: the menu saved a configuration equal to the defaults: the
\* file is gone and loading gives the defaults
C35_Witness ==
    /\ out.notify = <<<<"info", "no overrides left">>>>
    /\ file = FileAbsent
    /\ activeConfig = DEFAULT_CONFIG
    /\ loadConfig(file).config = activeConfig

\* C36: every setTheme call of a pass names the theme that the configuration
\* active at the moment of the call gives for the detected appearance
\* (darkTheme for dark, lightTheme for light), also when a menu save replaced
\* the configuration while the pass awaited detection.
C36_CallUsesActiveConfig ==
    [][(PassEndsStep /\ out'.setTheme # <<>>) =>
          /\ out'.detected \in {"dark", "light"}
          /\ activeConfig' = activeConfig
          /\ out'.setTheme = <<IF out'.detected = "dark" THEN activeConfig.darkTheme
                                ELSE activeConfig.lightTheme>>]_vars

\* C36 witness: a pass called setTheme while saveConfig was pending, with
\* the theme of the configuration the save had just made active, which is not
\* the theme of the configuration before the save.  No timer exists and
\* none can be created while the save is pending, so the pass is one that a
\* tick started before "Save and apply" was chosen: the configuration was
\* replaced while it awaited detection
C36_Witness ==
    /\ cmdPc = "saving"
    /\ timers = {}
    /\ out.detected \in {"dark", "light"}
    /\ out.setTheme = <<IF out.detected = "dark" THEN activeConfig.darkTheme
                        ELSE activeConfig.lightTheme>>
    /\ out.setTheme # <<IF out.detected = "dark" THEN configBeforeSave.darkTheme
                        ELSE configBeforeSave.lightTheme>>

====
